---- MODULE Spec2Model ----
(***************************************************************************)
(* TechspecAnalyzer: the regex-based parameter extraction and the PSU/LED  *)
(* compatibility decision, as implemented by                               *)
(*   src/app.py                               (first web handler)          *)
(*   src/tech-spec-analyzer-pro/backend/app.py  (second web handler)       *)
(*   src/tech-spec-analyzer-pro/ai/parameter_extractor.py  (the core)      *)
(*                                                                         *)
(* Text is a TLA+ string, read character by character with SubSeq.         *)
(* Python's None is the empty tuple <<>> and a present value v is <<v>>.   *)
(* A float is an integer count of hundredths (12.0 is 1200, 0.5 is 50):    *)
(* the documents of the model carry at most two fractional digits, and     *)
(* IEEE rounding of the operands is not modelled.                          *)
(***************************************************************************)
EXTENDS Integers, Sequences, FiniteSets, TLC

(***************************************************************************)
(* State                                                                   *)
(***************************************************************************)
VARIABLES
    handler,        \* the program that served the last request: "app", "backend"
    document_text,  \* the last request's document_text
    user_query,     \* the last request's user_query
    response,       \* the last response
    sessions,       \* backend/app.py: analysis_history.sessions
    served,         \* the number of requests served
    step,           \* the core: "idle", "called" (arguments bound), "returned"
    extracted,      \* the core: all_parameters before _deduplicate_parameters
    located,        \* the core: what find_psu_led_parameters returned
    arguments,      \* the core: analyze_psu_led_compatibility's four arguments
    outcome,        \* the core: what analyze_psu_led_compatibility returned
    operation,      \* the extractor: the method called last, "none" at first
    operand,        \* the extractor: the argument of that call
    result,         \* the extractor: what that call returned
    earlier,        \* the extractor: what the call before it returned
    answered,       \* the web layer: the requests answered so far, in order
    recent,         \* the history: what get_recent_sessions returned last
    threads,        \* the history: each thread's place in save_analysis
    compared        \* the three voltage checks applied to one pair of captures

(***************************************************************************)
(* Python values                                                           *)
(***************************************************************************)
None == <<>>

Some(v) == <<v>>

IsNone(o) == o = None

Val(o) == o[1]

\* bool(x) of an Optional[str]: None and "" are falsy
TruthyStr(o) == o # None /\ Val(o) # ""

\* bool(x) of an Optional[float]: None and 0.0 are falsy
TruthyNum(o) == o # None /\ Val(o) # 0

Abs(n) == IF n < 0 THEN -n ELSE n

Min2(a, b) == IF a <= b THEN a ELSE b

Max2(a, b) == IF a >= b THEN a ELSE b

(***************************************************************************)
(* Characters                                                              *)
(***************************************************************************)
CharAt(s, i) == SubSeq(s, i, i)

DIGITS == {"0", "1", "2", "3", "4", "5", "6", "7", "8", "9"}

\* \s of Python's re for the ASCII range
WHITESPACE == {" ", "\t", "\n", "\r", "\f"}

DigitValue ==
    ("0" :> 0) @@ ("1" :> 1) @@ ("2" :> 2) @@ ("3" :> 3) @@ ("4" :> 4) @@
    ("5" :> 5) @@ ("6" :> 6) @@ ("7" :> 7) @@ ("8" :> 8) @@ ("9" :> 9)

ToLowerMap ==
    ("A" :> "a") @@ ("B" :> "b") @@ ("C" :> "c") @@ ("D" :> "d") @@
    ("E" :> "e") @@ ("F" :> "f") @@ ("G" :> "g") @@ ("H" :> "h") @@
    ("I" :> "i") @@ ("J" :> "j") @@ ("K" :> "k") @@ ("L" :> "l") @@
    ("M" :> "m") @@ ("N" :> "n") @@ ("O" :> "o") @@ ("P" :> "p") @@
    ("Q" :> "q") @@ ("R" :> "r") @@ ("S" :> "s") @@ ("T" :> "t") @@
    ("U" :> "u") @@ ("V" :> "v") @@ ("W" :> "w") @@ ("X" :> "x") @@
    ("Y" :> "y") @@ ("Z" :> "z")

LowerChar(c) == IF c \in DOMAIN ToLowerMap THEN ToLowerMap[c] ELSE c

RECURSIVE LowerFrom(_, _)
LowerFrom(s, i) ==
    IF i > Len(s) THEN "" ELSE LowerChar(CharAt(s, i)) \o LowerFrom(s, i + 1)

\* str.lower()
Lower(s) == LowerFrom(s, 1)

RECURSIVE LStripFrom(_, _)
LStripFrom(s, i) ==
    IF i > Len(s) THEN i
    ELSE IF CharAt(s, i) \in WHITESPACE THEN LStripFrom(s, i + 1) ELSE i

RECURSIVE RStripFrom(_, _)
RStripFrom(s, j) ==
    IF j < 1 THEN j
    ELSE IF CharAt(s, j) \in WHITESPACE THEN RStripFrom(s, j - 1) ELSE j

\* str.strip()
Strip(s) == SubSeq(s, LStripFrom(s, 1), RStripFrom(s, Len(s)))

\* sub in s
Contains(s, sub) ==
    \E i \in 1..(Len(s) - Len(sub) + 1) : SubSeq(s, i, i + Len(sub) - 1) = sub

(***************************************************************************)
(* Regular expressions: the subset of Python's re the program uses.        *)
(* A pattern is a sequence of elements; matching is the backtracking       *)
(* search of re: greedy repetition, alternatives tried in the order        *)
(* written, the first complete match wins.                                 *)
(***************************************************************************)
\* a literal string
Lit(s) == [t |-> "lit", s |-> s]

\* cls* (min 0) or cls+ (min 1), greedy
Rep(cls, min) == [t |-> "rep", cls |-> cls, min |-> min]

\* (?:p)?  greedy
Opt(p) == [t |-> "opt", p |-> p]

\* (?:p1|p2|...)  ps is a sequence of patterns
Alt(ps) == [t |-> "alt", ps |-> ps]

\* ( p )  capturing group 1
Grp(p) == [t |-> "grp", p |-> p]

GrpStart == [t |-> "gs"]

GrpEnd == [t |-> "ge"]

\* one literal alternative per string
AltLit(strs) == Alt([i \in 1..Len(strs) |-> <<Lit(strs[i])>>])

\* no match; a match is [pos |-> next position, gs, ge |-> span of group 1,
\* ic |-> re.IGNORECASE]
NoMatch == [pos |-> 0, gs |-> 0, ge |-> 0, ic |-> FALSE]

RECURSIVE RunLen(_, _, _)
\* the length of the longest run of characters of cls at position i, counted
\* sixteen characters at a time while the run goes on
RunLen(txt, cls, i) ==
    IF i > Len(txt) THEN 0
    ELSE IF CharAt(txt, i) \notin cls THEN 0
    ELSE IF /\ i + 15 <= Len(txt)
            /\ \A j \in (i + 1)..(i + 15) : CharAt(txt, j) \in cls
         THEN 16 + RunLen(txt, cls, i + 16)
    ELSE 1 + RunLen(txt, cls, i + 1)

\* the literal s at position pos of txt; with ic, letters match in either case
LitAt(txt, pos, s, ic) ==
    /\ pos + Len(s) - 1 <= Len(txt)
    /\ IF ic
       THEN \A j \in 1..Len(s) :
                LowerChar(CharAt(txt, pos + j - 1)) = LowerChar(CharAt(s, j))
       ELSE SubSeq(txt, pos, pos + Len(s) - 1) = s

RECURSIVE MatchK(_, _, _)
RECURSIVE TryRep(_, _, _, _, _)
RECURSIVE TryAlt(_, _, _, _, _)

\* the pattern k (what is left to match) against txt from state st
MatchK(k, txt, st) ==
    IF k = <<>> THEN st
    ELSE LET e == Head(k)
             rest == Tail(k)
         IN CASE e.t = "lit" ->
                    IF LitAt(txt, st.pos, e.s, st.ic)
                    THEN MatchK(rest, txt, [st EXCEPT !.pos = st.pos + Len(e.s)])
                    ELSE NoMatch
              [] e.t = "rep" ->
                    TryRep(rest, txt, st, RunLen(txt, e.cls, st.pos), e.min)
              [] e.t = "opt" ->
                    LET r == MatchK(e.p \o rest, txt, st)
                    IN IF r.pos # 0 THEN r ELSE MatchK(rest, txt, st)
              [] e.t = "alt" -> TryAlt(e.ps, 1, rest, txt, st)
              [] e.t = "grp" ->
                    MatchK(<<GrpStart>> \o e.p \o <<GrpEnd>> \o rest, txt, st)
              [] e.t = "gs" -> MatchK(rest, txt, [st EXCEPT !.gs = st.pos])
              [] e.t = "ge" -> MatchK(rest, txt, [st EXCEPT !.ge = st.pos])

\* greedy repetition: the longest run first, then shorter ones
TryRep(rest, txt, st, n, min) ==
    IF n < min THEN NoMatch
    ELSE LET r == MatchK(rest, txt, [st EXCEPT !.pos = st.pos + n])
         IN IF r.pos # 0 THEN r ELSE TryRep(rest, txt, st, n - 1, min)

\* alternatives in the order written
TryAlt(ps, i, rest, txt, st) ==
    IF i > Len(ps) THEN NoMatch
    ELSE LET r == MatchK(ps[i] \o rest, txt, st)
         IN IF r.pos # 0 THEN r ELSE TryAlt(ps, i + 1, rest, txt, st)

RECURSIVE FirstChars(_)
\* the lower-cased characters a match of pattern p can start with, or {""}
\* when p can match the empty string: the search skips every position whose
\* character is not among them, where MatchK fails
FirstChars(p) ==
    IF p = <<>> THEN {""}
    ELSE LET e == Head(p)
             rest == Tail(p)
         IN CASE e.t = "lit" ->
                    IF e.s = "" THEN FirstChars(rest)
                    ELSE {LowerChar(CharAt(e.s, 1))}
              [] e.t = "rep" ->
                    IF e.min >= 1 THEN e.cls ELSE e.cls \cup FirstChars(rest)
              [] e.t = "opt" -> FirstChars(e.p \o rest) \cup FirstChars(rest)
              [] e.t = "alt" ->
                    UNION {FirstChars(e.ps[i] \o rest) : i \in 1..Len(e.ps)}
              [] e.t = "grp" -> FirstChars(e.p \o rest)
              [] OTHER -> FirstChars(rest)

\* a match object: [start, end) of the whole match, [gs, ge) of group 1
NoMatchObj == [start |-> 0, end |-> 0, gs |-> 0, ge |-> 0]

\* the leftmost match of p in txt that starts at position s or later
SearchFrom(p, first, txt, ic, s) ==
    LET at(i) == MatchK(p, txt, [pos |-> i, gs |-> 0, ge |-> 0, ic |-> ic])
        starts == {i \in s..(Len(txt) + 1) :
                      /\ \/ "" \in first
                         \/ i <= Len(txt) /\ LowerChar(CharAt(txt, i)) \in first
                      /\ at(i).pos # 0}
    IN IF starts = {} THEN NoMatchObj
       ELSE LET i == CHOOSE j \in starts : \A k \in starts : j <= k
                r == at(i)
            IN [start |-> i, end |-> r.pos, gs |-> r.gs, ge |-> r.ge]

\* re.search(pattern, text, flags): the leftmost match, or NoMatchObj
re_search(pattern, text, ignorecase) ==
    SearchFrom(pattern, FirstChars(pattern), text, ignorecase, 1)

IsMatch(m) == m.start # 0

\* match.group(1) and match.group(0)
Group1(text, m) == SubSeq(text, m.gs, m.ge - 1)

Group0(text, m) == SubSeq(text, m.start, m.end - 1)

RECURSIVE FindFrom(_, _, _, _, _)
FindFrom(p, first, txt, ic, s) ==
    LET m == SearchFrom(p, first, txt, ic, s)
    IN IF ~IsMatch(m) THEN <<>>
       ELSE <<m>> \o FindFrom(p, first, txt, ic,
                              IF m.end > m.start THEN m.end ELSE m.end + 1)

\* re.finditer(pattern, text, flags): the non-overlapping matches, left to right
re_finditer(pattern, text, ignorecase) ==
    FindFrom(pattern, FirstChars(pattern), text, ignorecase, 1)

(***************************************************************************)
(* float(): a decimal literal "ddd" or "ddd.ddd" in hundredths             *)
(***************************************************************************)
RECURSIVE DigitsValue(_, _, _)
\* the value of the digits s[i..j]
DigitsValue(s, i, j) ==
    IF j < i THEN 0
    ELSE 10 * DigitsValue(s, i, j - 1) + DigitValue[CharAt(s, j)]

\* float('inf'), which float() returns for a literal beyond the largest
\* double (about 1.8e308), and float('nan'), which inf - inf gives
Infinity == 2147483647

NaN == -2147483647

\* the integer digits from which every literal is beyond the largest double
OverflowDigits == 310

\* the literals of the model have at most 7 or at least OverflowDigits
\* integer digits
float(s) ==
    LET n == RunLen(s, DIGITS, 1)
        f == IF n + 1 <= Len(s) /\ CharAt(s, n + 1) = "."
             THEN RunLen(s, DIGITS, n + 2) ELSE 0
        d1 == IF f >= 1 THEN DigitValue[CharAt(s, n + 2)] ELSE 0
        d2 == IF f >= 2 THEN DigitValue[CharAt(s, n + 3)] ELSE 0
    IN IF n - RunLen(s, {"0"}, 1) >= OverflowDigits THEN Infinity
       ELSE 100 * DigitsValue(s, 1, n) + 10 * d1 + d2

\* abs(a - b) of two floats neither of which is nan
abs_difference(a, b) ==
    IF a = Infinity /\ b = Infinity THEN NaN
    ELSE IF a = Infinity \/ b = Infinity THEN Infinity
    ELSE IF a < b THEN b - a ELSE a - b

(***************************************************************************)
(* The web layer: src/app.py and backend/app.py                            *)
(***************************************************************************)
\* two texts on two lines
JoinText(a, b) == a \o "\n" \o b

\* [0-9]+(?:\.[0-9]+)?   (also \d+(?:\.\d+)?)
DECIMAL == <<Rep(DIGITS, 1), Opt(<<Lit("."), Rep(DIGITS, 1)>>)>>

\* <label>\s*([0-9]+\s*V\s*DC)
VoltDcPattern(label) ==
    <<Lit(label), Rep(WHITESPACE, 0),
      Grp(<<Rep(DIGITS, 1), Rep(WHITESPACE, 0), Lit("V"),
            Rep(WHITESPACE, 0), Lit("DC")>>)>>

\* <label>\s*([0-9]+\s*V)
VoltPattern(label) ==
    <<Lit(label), Rep(WHITESPACE, 0),
      Grp(<<Rep(DIGITS, 1), Rep(WHITESPACE, 0), Lit("V")>>)>>

\* <label>\s*([0-9]+(?:\.[0-9]+)?\s*Amps?)
AmpsPattern(label) ==
    <<Lit(label), Rep(WHITESPACE, 0),
      Grp(DECIMAL \o <<Rep(WHITESPACE, 0), Lit("Amp"), Opt(<<Lit("s")>>)>>)>>

\* src/app.py
psu_output_voltage_patterns ==
    <<VoltDcPattern("Output Voltage:"),
      VoltDcPattern("Output:"),
      VoltPattern("DC Output:")>>

psu_max_current_patterns ==
    <<AmpsPattern("Max Output Current:"),
      AmpsPattern("Maximum Current:"),
      AmpsPattern("Output Current:")>>

led_input_voltage_patterns ==
    <<VoltDcPattern("Required Input Voltage:"),
      VoltDcPattern("Input Voltage:"),
      VoltDcPattern("Operating Voltage:")>>

led_current_draw_patterns ==
    <<AmpsPattern("Current Draw:"),
      AmpsPattern("Power Consumption:"),
      AmpsPattern("Current Requirement:")>>

\* backend/app.py: the same lists with a fourth pattern each
backend_psu_output_voltage_patterns ==
    Append(psu_output_voltage_patterns, VoltPattern("Voltage Output:"))

backend_psu_max_current_patterns ==
    Append(psu_max_current_patterns, AmpsPattern("Current Rating:"))

backend_led_input_voltage_patterns ==
    Append(led_input_voltage_patterns, VoltDcPattern("Supply Voltage:"))

backend_led_current_draw_patterns ==
    Append(led_current_draw_patterns, AmpsPattern("Current Usage:"))

RECURSIVE extract_parameter_from(_, _, _)
extract_parameter_from(text, patterns, i) ==
    IF i > Len(patterns) THEN None
    ELSE LET match == re_search(patterns[i], text, TRUE)
         IN IF IsMatch(match) THEN Some(Strip(Group1(text, match)))
            ELSE extract_parameter_from(text, patterns, i + 1)

\* the stripped capture of the pattern whose match begins first in the text
extract_parameter_leftmost(text, patterns) ==
    LET found == [i \in 1..Len(patterns) |-> re_search(patterns[i], text, TRUE)]
        matching == {i \in 1..Len(patterns) : IsMatch(found[i])}
    IN IF matching = {} THEN None
       ELSE LET first == CHOOSE i \in matching : \A j \in matching :
                            \/ found[i].start < found[j].start
                            \/ found[i].start = found[j].start /\ i <= j
            IN Some(Strip(Group1(text, found[first])))

\* the stripped capture of the first pattern of the list that matches
extract_parameter(text, patterns) == extract_parameter_from(text, patterns, 1)

\* the first decimal number of an Optional[str], as an Optional[float]
extract_numerical_value(text) ==
    IF ~TruthyStr(text) THEN None
    ELSE LET match == re_search(<<Grp(DECIMAL)>>, Val(text), FALSE)
         IN IF IsMatch(match) THEN Some(float(Group1(Val(text), match)))
            ELSE None

\* x or "Not Found"
OrNotFound(o) == IF TruthyStr(o) THEN Val(o) ELSE "Not Found"

NotFoundJustification ==
    "Could not determine compatibility. One or more required parameters were not found in the document."

CompatibleJustification(pv, pc, lv, lc) ==
    "The Power Supply provides " \o pv \o ", which matches the LED's required "
    \o lv \o ". The PSU's max current of " \o pc
    \o " is sufficient to handle the LED's draw of " \o lc \o "."

VoltageMismatchClause(pv, lv) ==
    "Voltage mismatch: PSU provides " \o pv \o " but LED requires " \o lv \o "."

InsufficientCurrentClause(pc, lc) ==
    "Insufficient current: PSU provides a max of " \o pc
    \o " but LED requires " \o lc \o "."

\* the justification with elif in place of the second if: the first failing
\* check only
FirstClauseJustification(voltage_match, current_sufficient, pv, pc, lv, lc) ==
    IF ~voltage_match THEN VoltageMismatchClause(pv, lv)
    ELSE IF ~current_sufficient THEN InsufficientCurrentClause(pc, lc)
    ELSE ""

\* " ".join(justification_parts)
IncompatibleJustification(voltage_match, current_sufficient, pv, pc, lv, lc) ==
    IF ~voltage_match /\ ~current_sufficient
    THEN VoltageMismatchClause(pv, lv) \o " " \o InsufficientCurrentClause(pc, lc)
    ELSE IF ~voltage_match THEN VoltageMismatchClause(pv, lv)
    ELSE IF ~current_sufficient THEN InsufficientCurrentClause(pc, lc)
    ELSE ""

\* the four sections with the two voltages before the two currents
referenced_sections_by_quantity(pv, pc, lv, lc) ==
    <<[section_name |-> "PSU - Output Voltage",
       details |-> "Output Voltage: " \o pv],
      [section_name |-> "LED - Required Input Voltage",
       details |-> "Required Input Voltage: " \o lv],
      [section_name |-> "PSU - Max Output Current",
       details |-> "Max Output Current: " \o pc],
      [section_name |-> "LED - Current Draw",
       details |-> "Current Draw: " \o lc]>>

referenced_sections_of(pv, pc, lv, lc) ==
    <<[section_name |-> "PSU - Output Voltage",
       details |-> "Output Voltage: " \o pv],
      [section_name |-> "PSU - Max Output Current",
       details |-> "Max Output Current: " \o pc],
      [section_name |-> "LED - Required Input Voltage",
       details |-> "Required Input Voltage: " \o lv],
      [section_name |-> "LED - Current Draw",
       details |-> "Current Draw: " \o lc]>>

extracted_data_of(pv, pc, lv, lc) ==
    [PSU_Output_Voltage |-> OrNotFound(pv),
     PSU_Max_Output_Current |-> OrNotFound(pc),
     LED_Required_Voltage |-> OrNotFound(lv),
     LED_Current_Draw |-> OrNotFound(lc)]

\* any([...]) in place of all([...])
any_params_found_of(pv, pc, lv, lc) ==
    TruthyStr(pv) \/ TruthyStr(pc) \/ TruthyStr(lv) \/ TruthyStr(lc)

\* all([...]) of the four captured strings
all_params_found_of(pv, pc, lv, lc) ==
    TruthyStr(pv) /\ TruthyStr(pc) /\ TruthyStr(lv) /\ TruthyStr(lc)

\* src/app.py line 105: all([...]) of the four floats
app_all_values(pvv, pcv, lvv, lcv) ==
    TruthyNum(pvv) /\ TruthyNum(pcv) /\ TruthyNum(lvv) /\ TruthyNum(lcv)

\* src/app.py line 106
app_voltage_match(psu_voltage_val, led_voltage_val) ==
    psu_voltage_val = led_voltage_val

\* line 107 with > in place of >=
app_current_exceeds(psu_current_val, led_current_val) ==
    psu_current_val > led_current_val

\* src/app.py line 107
app_current_sufficient(psu_current_val, led_current_val) ==
    psu_current_val >= led_current_val

\* src/app.py lines 105-132: the comparison of the four floats
app_compare(pv, pc, lv, lc, psu_voltage_val, psu_current_val, led_voltage_val, led_current_val) ==
    IF app_all_values(psu_voltage_val, psu_current_val,
                      led_voltage_val, led_current_val)
    THEN LET voltage_match ==
                app_voltage_match(Val(psu_voltage_val), Val(led_voltage_val))
             current_sufficient ==
                app_current_sufficient(Val(psu_current_val), Val(led_current_val))
         IN IF voltage_match /\ current_sufficient
            THEN [Decision |-> "Compatible",
                  Justification |->
                     CompatibleJustification(Val(pv), Val(pc), Val(lv), Val(lc)),
                  Referenced_Sections |->
                     referenced_sections_of(Val(pv), Val(pc), Val(lv), Val(lc)),
                  Confidence_Score |-> "High"]
            ELSE [Decision |-> "Incompatible",
                  Justification |->
                     IncompatibleJustification(voltage_match, current_sufficient,
                         Val(pv), Val(pc), Val(lv), Val(lc)),
                  Referenced_Sections |->
                     referenced_sections_of(Val(pv), Val(pc), Val(lv), Val(lc)),
                  Confidence_Score |-> "High"]
    ELSE [Decision |-> "Not Explicitly Covered",
          Justification |->
             "Found parameters but could not parse numerical values to perform comparison.",
          Referenced_Sections |-> <<>>,
          Confidence_Score |-> "Medium"]

\* src/app.py lines 95-132: the decision once the four strings are found
app_decide(pv, pc, lv, lc) ==
    app_compare(pv, pc, lv, lc,
                extract_numerical_value(pv), extract_numerical_value(pc),
                extract_numerical_value(lv), extract_numerical_value(lc))

NotCovered ==
    [Decision |-> "Not Explicitly Covered",
     Justification |-> NotFoundJustification,
     Referenced_Sections |-> <<>>,
     Confidence_Score |-> "Low"]

\* src/app.py lines 140-146: response_data of the decision d
app_response_data(pv, pc, lv, lc, d) ==
    [status |-> 200,
     Decision |-> d.Decision,
     Justification |-> d.Justification,
     Referenced_Sections |-> d.Referenced_Sections,
     Extracted_Technical_Data |-> extracted_data_of(pv, pc, lv, lc),
     Confidence_Score |-> d.Confidence_Score]

\* src/app.py lines 79-146: the response to the four captured strings
app_respond(pv, pc, lv, lc) ==
    app_response_data(pv, pc, lv, lc,
                      IF all_params_found_of(pv, pc, lv, lc)
                      THEN app_decide(pv, pc, lv, lc) ELSE NotCovered)

\* analyze() searching the query as well as the document
app_analyze_query(text, query) ==
    app_respond(extract_parameter(JoinText(query, text), psu_output_voltage_patterns),
                extract_parameter(JoinText(query, text), psu_max_current_patterns),
                extract_parameter(JoinText(query, text), led_input_voltage_patterns),
                extract_parameter(JoinText(query, text), led_current_draw_patterns))

\* src/app.py analyze(): the JSON response to a well-formed request
app_analyze(text, query) ==
    app_respond(extract_parameter(text, psu_output_voltage_patterns),
                extract_parameter(text, psu_max_current_patterns),
                extract_parameter(text, led_input_voltage_patterns),
                extract_parameter(text, led_current_draw_patterns))

\* backend/app.py line 103: abs(psu_voltage - led_voltage) < 0.1
\* (a comparison with nan is False)
backend_voltage_match(psu_voltage, led_voltage) ==
    LET difference == abs_difference(psu_voltage, led_voltage)
    IN difference # NaN /\ difference < 10

\* backend/app.py line 104
backend_current_sufficient(psu_current, led_current) ==
    psu_current >= led_current

\* backend/app.py analyze_compatibility(); every value is a float or None, so
\* the isinstance check of line 95 never fails
analyze_compatibility(psu_voltage, psu_current, led_voltage, led_current) ==
    IF None \in {psu_voltage, psu_current, led_voltage, led_current}
    THEN [compatible |-> FALSE, reason |-> "Missing parameter values",
          voltage_match |-> FALSE, current_sufficient |-> FALSE]
    ELSE LET voltage_match ==
                backend_voltage_match(Val(psu_voltage), Val(led_voltage))
             current_sufficient ==
                backend_current_sufficient(Val(psu_current), Val(led_current))
         IN [compatible |-> voltage_match /\ current_sufficient,
             reason |-> IF voltage_match /\ current_sufficient
                        THEN "Compatible" ELSE "Incompatible",
             voltage_match |-> voltage_match,
             current_sufficient |-> current_sufficient]

\* backend/app.py lines 210-234: the decision on analyze_compatibility's result
backend_verdict(pv, pc, lv, lc, compatibility_result) ==
    IF compatibility_result.compatible
    THEN IF compatibility_result.voltage_match
            /\ compatibility_result.current_sufficient
         THEN [Decision |-> "Compatible",
               Justification |->
                  CompatibleJustification(Val(pv), Val(pc), Val(lv), Val(lc)),
               Referenced_Sections |->
                  referenced_sections_of(Val(pv), Val(pc), Val(lv), Val(lc)),
               Confidence_Score |-> "High"]
         ELSE [Decision |-> "Incompatible",
               Justification |->
                  IncompatibleJustification(compatibility_result.voltage_match,
                      compatibility_result.current_sufficient,
                      Val(pv), Val(pc), Val(lv), Val(lc)),
               Referenced_Sections |->
                  referenced_sections_of(Val(pv), Val(pc), Val(lv), Val(lc)),
               Confidence_Score |-> "High"]
    ELSE [Decision |-> "Not Explicitly Covered",
          Justification |->
             "Found parameters but could not perform numerical analysis.",
          Referenced_Sections |-> <<>>,
          Confidence_Score |-> "Medium"]

\* backend/app.py lines 197-234: the decision once the four strings are found
backend_decide(pv, pc, lv, lc) ==
    backend_verdict(pv, pc, lv, lc,
                    analyze_compatibility(extract_numerical_value(pv),
                                          extract_numerical_value(pc),
                                          extract_numerical_value(lv),
                                          extract_numerical_value(lc)))

\* backend/app.py lines 236-249: response_data of the decision d
backend_response_data(pv, pc, lv, lc, found, d, analysis_session_id) ==
    [status |-> 200,
     Decision |-> d.Decision,
     Justification |-> d.Justification,
     Referenced_Sections |-> d.Referenced_Sections,
     Extracted_Technical_Data |-> extracted_data_of(pv, pc, lv, lc),
     Confidence_Score |-> d.Confidence_Score,
     Analysis_Details |-> [parameters_found |-> found,
                           extraction_success |-> found,
                           session_id |-> analysis_session_id]]

\* backend/app.py lines 181-249: the response to the four captured strings
backend_respond(pv, pc, lv, lc, analysis_session_id) ==
    backend_response_data(pv, pc, lv, lc, all_params_found_of(pv, pc, lv, lc),
                          IF all_params_found_of(pv, pc, lv, lc)
                          THEN backend_decide(pv, pc, lv, lc) ELSE NotCovered,
                          analysis_session_id)

\* backend/app.py analyze(): the JSON response to a well-formed request.
\* Analysis_Details.processing_time_ms (a clock reading) is left out.
backend_analyze(text, query, analysis_session_id) ==
    backend_respond(extract_parameter(text, backend_psu_output_voltage_patterns),
                    extract_parameter(text, backend_psu_max_current_patterns),
                    extract_parameter(text, backend_led_input_voltage_patterns),
                    extract_parameter(text, backend_led_current_draw_patterns),
                    analysis_session_id)

\* the Python type of the JSON value that starts at position i of text
json_type(text, i) ==
    CASE CharAt(text, i) = "[" -> "list"
      [] CharAt(text, i) = "{" -> "dict"
      [] CharAt(text, i) = "\"" -> "str"
      [] CharAt(text, i) = "n" -> "NoneType"
      [] CharAt(text, i) \in {"t", "f"} -> "bool"
      [] OTHER -> "int"

DocumentTextKey == "\"document_text\": "

\* the positions just after the key "document_text" of a JSON object
document_text_at(text) ==
    {i + Len(DocumentTextKey) : i \in
        {j \in 1..(Len(text) - Len(DocumentTextKey) + 1) :
            SubSeq(text, j, j + Len(DocumentTextKey) - 1) = DocumentTextKey}}

\* request.get_json(): the type of the body and, of a dict, the type of
\* data.get('document_text', '')
get_json(body) ==
    IF json_type(body, 1) # "dict"
    THEN [json |-> json_type(body, 1)]
    ELSE [json |-> "dict",
          document_text |->
              IF document_text_at(body) = {}
              THEN "str"
              ELSE json_type(body, CHOOSE i \in document_text_at(body) : TRUE)]

\* the exception the try block of analyze() raises on the request body data,
\* as str(e): data.get fails on a body that is no dict, len(document_text)
\* on a document_text that has no length
analyze_failure(data) ==
    IF data.json # "dict"
    THEN "'" \o data.json \o "' object has no attribute 'get'"
    ELSE "object of type '" \o data.document_text \o "' has no len()"

\* src/app.py lines 151-159; {} is the function of no field
app_error_response(message) ==
    [status |-> 500,
     Decision |-> "Error",
     Justification |-> "An error occurred during analysis: " \o message,
     Referenced_Sections |-> <<>>,
     Extracted_Technical_Data |-> [field \in {} |-> ""],
     Confidence_Score |-> "Low"]

\* backend/app.py lines 263-272
backend_error_response(message) ==
    [status |-> 500,
     Decision |-> "Error",
     Justification |-> "An error occurred during analysis: " \o message,
     Referenced_Sections |-> <<>>,
     Extracted_Technical_Data |-> [field \in {} |-> ""],
     Confidence_Score |-> "Low",
     Analysis_Details |-> [error |-> message]]

(***************************************************************************)
(* The core: ai/parameter_extractor.py                                     *)
(***************************************************************************)
VOLTAGE == "voltage"

CURRENT == "current"

POWER == "power"

TEMPERATURE == "temperature"

FREQUENCY == "frequency"

\* (<number>\s*V(?:\s*(?:DC|AC))?)
VoltValueOptDc ==
    Grp(DECIMAL \o <<Rep(WHITESPACE, 0), Lit("V"),
                     Opt(<<Rep(WHITESPACE, 0), AltLit(<<"DC", "AC">>)>>)>>)

\* (?:A|Amps?|mA)
AmpUnit == Alt(<< <<Lit("A")>>, <<Lit("Amp"), Opt(<<Lit("s")>>)>>, <<Lit("mA")>> >>)

\* (<number>\s*(?:A|Amps?|mA))
AmpValue == Grp(DECIMAL \o <<Rep(WHITESPACE, 0), AmpUnit>>)

\* (?:W|Watts?)
WattUnit == Alt(<< <<Lit("W")>>, <<Lit("Watt"), Opt(<<Lit("s")>>)>> >>)

\* (<number>\s*(?:W|Watts?))
WattValue == Grp(DECIMAL \o <<Rep(WHITESPACE, 0), WattUnit>>)

\* ([0-9-]+°?C?\s*to\s*[0-9]+°?C?)
TempRange ==
    Grp(<<Rep(DIGITS \cup {"-"}, 1), Opt(<<Lit("°")>>), Opt(<<Lit("C")>>),
          Rep(WHITESPACE, 0), Lit("to"), Rep(WHITESPACE, 0),
          Rep(DIGITS, 1), Opt(<<Lit("°")>>), Opt(<<Lit("C")>>)>>)

HertzUnit == AltLit(<<"Hz", "KHz", "MHz", "GHz">>)

\* (<number>\s*(?:Hz|KHz|MHz|GHz))
HertzValue == Grp(DECIMAL \o <<Rep(WHITESPACE, 0), HertzUnit>>)

voltage_group ==
    [patterns |->
        <<<<AltLit(<<"Output", "Input", "Supply", "Operating", "Required">>),
            Rep(WHITESPACE, 1), Lit("Voltage:"), Rep(WHITESPACE, 0),
            VoltValueOptDc>>,
          <<Lit("Voltage"), Rep(WHITESPACE, 1),
            AltLit(<<"Output", "Input", "Supply", "Rating">>), Lit(":"),
            Rep(WHITESPACE, 0), VoltValueOptDc>>,
          <<Grp(DECIMAL \o <<Rep(WHITESPACE, 0), Lit("V"), Rep(WHITESPACE, 0),
                             AltLit(<<"DC", "AC">>)>>),
            Rep(WHITESPACE, 1), AltLit(<<"output", "input", "supply">>)>>,
          <<Lit("V"), AltLit(<<"out", "in", "supply", "dd", "cc">>), Lit(":"),
            Rep(WHITESPACE, 0),
            Grp(DECIMAL \o <<Rep(WHITESPACE, 0), Lit("V")>>)>> >>,
     unit_patterns |->
        <<<<Grp(<<Lit("V"), Opt(<<Lit("olt"), Opt(<<Lit("s")>>)>>),
                  Opt(<<Rep(WHITESPACE, 0), AltLit(<<"DC", "AC">>)>>)>>)>>,
          <<Grp(<<Lit("V")>>)>> >>,
     confidence_boost |-> 10]

current_group ==
    [patterns |->
        <<<<AltLit(<<"Max", "Maximum", "Output", "Input", "Draw", "Consumption">>),
            Rep(WHITESPACE, 1), Lit("Current:"), Rep(WHITESPACE, 0), AmpValue>>,
          <<Lit("Current"), Rep(WHITESPACE, 1),
            AltLit(<<"Draw", "Rating", "Consumption", "Output", "Input">>),
            Lit(":"), Rep(WHITESPACE, 0), AmpValue>>,
          <<AmpValue, Rep(WHITESPACE, 1),
            AltLit(<<"current", "draw", "consumption">>)>>,
          <<Lit("I"), AltLit(<<"out", "in", "max">>), Lit(":"),
            Rep(WHITESPACE, 0), AmpValue>> >>,
     unit_patterns |->
        <<<<Grp(<<Alt(<< <<Lit("A")>>,
                         <<Lit("Amp"), Opt(<<Lit("s")>>)>>,
                         <<Lit("mA")>>,
                         <<Lit("Ampere"), Opt(<<Lit("s")>>)>> >>)>>)>>,
          <<Grp(<<Lit("A")>>)>> >>,
     confidence_boost |-> 10]

power_group ==
    [patterns |->
        <<<<AltLit(<<"Max", "Maximum", "Output", "Input", "Rated">>),
            Rep(WHITESPACE, 1), Lit("Power:"), Rep(WHITESPACE, 0), WattValue>>,
          <<Lit("Power"), Rep(WHITESPACE, 1),
            AltLit(<<"Rating", "Consumption", "Output", "Input">>), Lit(":"),
            Rep(WHITESPACE, 0), WattValue>>,
          <<WattValue, Rep(WHITESPACE, 1), AltLit(<<"power", "consumption">>)>> >>,
     unit_patterns |-> <<<<Grp(<<WattUnit>>)>>, <<Grp(<<Lit("W")>>)>> >>,
     confidence_boost |-> 5]

temperature_group ==
    [patterns |->
        <<<<Lit("Operating"), Rep(WHITESPACE, 1), Lit("Temperature:"),
            Rep(WHITESPACE, 0), TempRange>>,
          <<Lit("Temperature"), Rep(WHITESPACE, 1), Lit("Range:"),
            Rep(WHITESPACE, 0), TempRange>>,
          <<Lit("Temp"), Opt(<<Lit(".")>>), Rep(WHITESPACE, 0), Lit("Range:"),
            Rep(WHITESPACE, 0), TempRange>> >>,
     unit_patterns |->
        <<<<Grp(<<AltLit(<<"°C", "Celsius">>)>>)>>, <<Grp(<<Lit("°C")>>)>> >>,
     confidence_boost |-> 5]

frequency_group ==
    [patterns |->
        <<<<Lit("Frequency:"), Rep(WHITESPACE, 0), HertzValue>>,
          <<HertzValue, Rep(WHITESPACE, 1), Lit("frequency")>> >>,
     unit_patterns |-> <<<<Grp(<<HertzUnit>>)>>, <<Grp(<<Lit("Hz")>>)>> >>,
     confidence_boost |-> 5]

\* _initialize_patterns: the dict in insertion order, as <<type, groups>> pairs
extraction_patterns ==
    <<<<VOLTAGE, <<voltage_group>>>>,
      <<CURRENT, <<current_group>>>>,
      <<POWER, <<power_group>>>>,
      <<TEMPERATURE, <<temperature_group>>>>,
      <<FREQUENCY, <<frequency_group>>>> >>

\* ([0-9]+(?:\.[0-9]+)?)\s*(?:to|-)\s*[0-9]+
RangePattern ==
    <<Grp(DECIMAL), Rep(WHITESPACE, 0), AltLit(<<"to", "-">>),
      Rep(WHITESPACE, 0), Rep(DIGITS, 1)>>

\* _extract_numerical_value without its single-value branch (lines 153-155)
range_numerical_value(text) ==
    IF text = "" THEN None
    ELSE LET range_match == re_search(RangePattern, text, FALSE)
         IN IF IsMatch(range_match) THEN Some(float(Group1(text, range_match)))
            ELSE None

\* _extract_numerical_value of a str
param_numerical_value(text) ==
    IF text = "" THEN None
    ELSE LET range_match == re_search(RangePattern, text, FALSE)
             match == re_search(<<Grp(DECIMAL)>>, text, FALSE)
         IN IF IsMatch(range_match) THEN Some(float(Group1(text, range_match)))
            ELSE IF IsMatch(match) THEN Some(float(Group1(text, match)))
            ELSE None

RECURSIVE extract_unit_from(_, _, _)
extract_unit_from(text, unit_patterns, i) ==
    IF i > Len(unit_patterns) THEN ""
    ELSE LET match == re_search(unit_patterns[i], text, TRUE)
         IN IF IsMatch(match) THEN Group1(text, match)
            ELSE extract_unit_from(text, unit_patterns, i + 1)

\* _extract_unit
extract_unit(text, unit_patterns) == extract_unit_from(text, unit_patterns, 1)

\* (?:datasheet|specification|spec|technical)
StructuredWords ==
    <<AltLit(<<"datasheet", "specification", "spec", "technical">>)>>

\* (?:\d+\.|\*|\-|\|)
ListMarker ==
    <<Alt(<< <<Rep(DIGITS, 1), Lit(".")>>, <<Lit("*")>>, <<Lit("-")>>, <<Lit("|")>> >>)>>

\* min(1.0, ...) of line 184
clamp_confidence(c) == Min2(100, c)

\* _calculate_confidence with a window of 99 characters on each side
calculate_confidence_narrow(match, full_text, boost) ==
    LET context_start == Max2(0, (match.start - 1) - 99)
        context_end == Min2(Len(full_text), (match.end - 1) + 99)
        context == SubSeq(full_text, context_start + 1, context_end)
        structured == IF IsMatch(re_search(StructuredWords, context, TRUE))
                      THEN 15 ELSE 0
        listed == IF IsMatch(re_search(ListMarker, context, FALSE))
                  THEN 10 ELSE 0
    IN clamp_confidence(60 + structured + listed + boost)

\* _calculate_confidence, in hundredths; match.start() is match.start - 1 and
\* match.end() is match.end - 1
calculate_confidence(match, full_text, boost) ==
    LET context_start == Max2(0, (match.start - 1) - 100)
        context_end == Min2(Len(full_text), (match.end - 1) + 100)
        context == SubSeq(full_text, context_start + 1, context_end)
        structured == IF IsMatch(re_search(StructuredWords, context, TRUE))
                      THEN 15 ELSE 0
        listed == IF IsMatch(re_search(ListMarker, context, FALSE))
                  THEN 10 ELSE 0
    IN clamp_confidence(60 + structured + listed + boost)

RECURSIVE ToStr(_)
\* str(n) of a natural number
ToStr(n) ==
    LET digit == CHOOSE c \in DIGITS : DigitValue[c] = n % 10
    IN IF n < 10 THEN digit ELSE ToStr(n \div 10) \o digit

\* the ExtractedParameter of one match; count is len(parameters) so far
make_parameter(text, param_type, pattern_group, match, count) ==
    LET param_value == Strip(Group1(text, match))
    IN [name |-> param_type \o "_" \o ToStr(count),
        value |-> param_value,
        numerical_value |-> param_numerical_value(param_value),
        unit |-> extract_unit(param_value, pattern_group.unit_patterns),
        confidence |->
            calculate_confidence(match, text, pattern_group.confidence_boost),
        source_text |-> Group0(text, match),
        parameter_type |-> param_type]

RECURSIVE extract_matches(_, _, _, _, _, _)
\* the inner loop of _extract_parameter_type over the matches of one pattern
extract_matches(text, param_type, pattern_group, matches, i, parameters) ==
    IF i > Len(matches) THEN parameters
    ELSE extract_matches(text, param_type, pattern_group, matches, i + 1,
            Append(parameters,
                   make_parameter(text, param_type, pattern_group, matches[i],
                                  Len(parameters))))

RECURSIVE extract_patterns_from(_, _, _, _, _)
\* the outer loop of _extract_parameter_type over the patterns of the group
extract_patterns_from(text, param_type, pattern_group, i, parameters) ==
    IF i > Len(pattern_group.patterns) THEN parameters
    ELSE extract_patterns_from(text, param_type, pattern_group, i + 1,
            extract_matches(text, param_type, pattern_group,
                re_finditer(pattern_group.patterns[i], text, TRUE), 1,
                parameters))

\* _extract_parameter_type
extract_parameter_type(text, param_type, pattern_group) ==
    extract_patterns_from(text, param_type, pattern_group, 1, <<>>)

RECURSIVE extract_groups(_, _, _, _)
extract_groups(text, param_type, pattern_groups, i) ==
    IF i > Len(pattern_groups) THEN <<>>
    ELSE extract_parameter_type(text, param_type, pattern_groups[i])
         \o extract_groups(text, param_type, pattern_groups, i + 1)

RECURSIVE extract_types(_, _)
extract_types(text, i) ==
    IF i > Len(extraction_patterns) THEN <<>>
    ELSE extract_groups(text, extraction_patterns[i][1],
                        extraction_patterns[i][2], 1)
         \o extract_types(text, i + 1)

\* the loop of line 102 left after the first parameter type
collect_first_type(text) ==
    extract_groups(text, extraction_patterns[1][1], extraction_patterns[1][2], 1)

\* extract_all_parameters before deduplication: all_parameters at line 109
collect_all_parameters(text) == extract_types(text, 1)

\* the key of _deduplicate_parameters
dedup_key(param) ==
    <<param.parameter_type, param.numerical_value, Lower(param.unit)>>

\* line 193 with >= in place of >
dedup_replaces_on_tie(param, seen_param) ==
    param.confidence >= seen_param.confidence

\* line 193: whether param replaces the entry seen for its key
dedup_replaces(param, seen_param) == param.confidence > seen_param.confidence

RECURSIVE deduplicate_from(_, _, _)
\* seen_values as the sequence of its values, in the dict's insertion order
deduplicate_from(parameters, i, seen_values) ==
    IF i > Len(parameters) THEN seen_values
    ELSE LET param == parameters[i]
             at == {j \in 1..Len(seen_values) :
                        dedup_key(seen_values[j]) = dedup_key(param)}
         IN IF at = {}
            THEN deduplicate_from(parameters, i + 1, Append(seen_values, param))
            ELSE LET j == CHOOSE k \in at : TRUE
                 IN IF dedup_replaces(param, seen_values[j])
                    THEN deduplicate_from(parameters, i + 1,
                            [seen_values EXCEPT ![j] = param])
                    ELSE deduplicate_from(parameters, i + 1, seen_values)

\* _deduplicate_parameters with the loop of line 190 begun at the second entry
deduplicate_rest(parameters) == deduplicate_from(parameters, 2, <<>>)

\* _deduplicate_parameters
deduplicate_parameters(parameters) == deduplicate_from(parameters, 1, <<>>)

\* extract_all_parameters
extract_all_parameters(text) ==
    deduplicate_parameters(collect_all_parameters(text))

psu_indicators ==
    {"power supply", "psu", "adapter", "charger", "output", "supply unit"}

led_indicators ==
    {"led", "strip", "light", "lamp", "input", "required", "consumption", "draw"}

\* _is_psu_parameter made to give way to an LED indicator
is_psu_only_parameter(source_text) ==
    /\ \E indicator \in psu_indicators : Contains(Lower(source_text), indicator)
    /\ ~\E indicator \in led_indicators : Contains(Lower(source_text), indicator)

\* _is_psu_parameter
is_psu_parameter(source_text) ==
    \E indicator \in psu_indicators : Contains(Lower(source_text), indicator)

\* _is_led_parameter
is_led_parameter(source_text) ==
    \E indicator \in led_indicators : Contains(Lower(source_text), indicator)

\* lines 211, 214, 219, 222 with >= in place of >
latest_best_of(slot, param) ==
    IF slot = None \/ param.confidence >= Val(slot).confidence
    THEN Some(param) ELSE slot

\* lines 211, 214, 219, 222: the slot after it has seen param
better_of(slot, param) ==
    IF slot = None \/ param.confidence > Val(slot).confidence
    THEN Some(param) ELSE slot

NoParameters ==
    [psu_voltage |-> None, psu_current |-> None,
     led_voltage |-> None, led_current |-> None]

RECURSIVE categorize(_, _, _)
\* the loop of find_psu_led_parameters over all_params
categorize(all_params, i, found) ==
    IF i > Len(all_params) THEN found
    ELSE LET param == all_params[i]
             next ==
                IF param.parameter_type = VOLTAGE
                THEN IF is_psu_parameter(param.source_text)
                     THEN [found EXCEPT
                              !.psu_voltage = better_of(found.psu_voltage, param)]
                     ELSE IF is_led_parameter(param.source_text)
                     THEN [found EXCEPT
                              !.led_voltage = better_of(found.led_voltage, param)]
                     ELSE found
                ELSE IF param.parameter_type = CURRENT
                THEN IF is_psu_parameter(param.source_text)
                     THEN [found EXCEPT
                              !.psu_current = better_of(found.psu_current, param)]
                     ELSE IF is_led_parameter(param.source_text)
                     THEN [found EXCEPT
                              !.led_current = better_of(found.led_current, param)]
                     ELSE found
                ELSE found
         IN categorize(all_params, i + 1, next)

\* find_psu_led_parameters
find_psu_led_parameters(text) ==
    LET all_params == extract_all_parameters(text)
        found == categorize(all_params, 1, NoParameters)
    IN [psu_voltage |-> found.psu_voltage,
        psu_current |-> found.psu_current,
        led_voltage |-> found.led_voltage,
        led_current |-> found.led_current,
        all_parameters |-> all_params]

\* the tolerance of line 314, 0.5 V, in hundredths
VoltageTolerance == 50

\* line 316 with < in place of <=
below_tolerance(difference, tolerance) == difference < tolerance

\* line 316
within_tolerance(difference, tolerance) == difference <= tolerance

\* _check_voltage_compatibility of two floats (the analysis text is left out)
check_voltage_compatibility(psu_voltage, led_voltage) ==
    LET tolerance == VoltageTolerance
        difference == abs_difference(psu_voltage, led_voltage)
    IN [compatible |-> difference # NaN /\ within_tolerance(difference, tolerance),
        psu_voltage |-> psu_voltage,
        led_voltage |-> led_voltage,
        difference |-> difference,
        tolerance |-> tolerance]

\* line 329 with > in place of >=
current_exceeds(psu_current, led_current) == psu_current > led_current

\* line 329
current_sufficient(psu_current, led_current) == psu_current >= led_current

\* _check_current_compatibility of two floats (the analysis text is left out);
\* safety_margin is the exact quotient num/den
check_current_compatibility(psu_current, led_current) ==
    LET safety_margin == IF led_current > 0
                         THEN [num |-> psu_current - led_current,
                               den |-> led_current]
                         ELSE [num |-> 0, den |-> 1]
    IN [compatible |-> current_sufficient(psu_current, led_current),
        psu_current |-> psu_current,
        led_current |-> led_current,
        safety_margin |-> safety_margin,
        margin_percentage |-> [num |-> 100 * safety_margin.num,
                               den |-> safety_margin.den]]

\* line 292 with >= in place of >
confidence_level_inclusive(confidence_score) ==
    IF confidence_score >= 80 THEN "High"
    ELSE IF confidence_score >= 60 THEN "Medium" ELSE "Low"

\* line 292, on hundredths
confidence_level_of(confidence_score) ==
    IF confidence_score > 80 THEN "High"
    ELSE IF confidence_score > 60 THEN "Medium" ELSE "Low"

\* the greatest of the four in place of the least
Max4(a, b, c, d) == Max2(Max2(a, b), Max2(c, d))

\* min([...]) of lines 286-291
Min4(a, b, c, d) == Min2(Min2(a, b), Min2(c, d))

\* lines 260-264 with the LED voltage test moved ahead of the PSU current test
missing_parameters_by_kind(psu_voltage, psu_current, led_voltage, led_current) ==
    (IF psu_voltage = None THEN <<"PSU voltage">> ELSE <<>>)
    \o (IF led_voltage = None THEN <<"LED voltage">> ELSE <<>>)
    \o (IF psu_current = None THEN <<"PSU current">> ELSE <<>>)
    \o (IF led_current = None THEN <<"LED current">> ELSE <<>>)

\* lines 260-264
missing_parameters_of(psu_voltage, psu_current, led_voltage, led_current) ==
    (IF psu_voltage = None THEN <<"PSU voltage">> ELSE <<>>)
    \o (IF psu_current = None THEN <<"PSU current">> ELSE <<>>)
    \o (IF led_voltage = None THEN <<"LED voltage">> ELSE <<>>)
    \o (IF led_current = None THEN <<"LED current">> ELSE <<>>)

\* the number of a current with milliamperes turned into amperes
current_in_amperes(parameter) ==
    IF parameter.unit = "mA"
    THEN Val(parameter.numerical_value) \div 1000
    ELSE Val(parameter.numerical_value)

\* lines 280-282: the number given to the current check is the parameter's
\* numerical_value as extracted
current_value(parameter) == Val(parameter.numerical_value)

\* an exception leaving the function
Raised(exception) == [raised |-> TRUE, exception |-> exception]

\* analyze_psu_led_compatibility of four Optional[ExtractedParameter]; an
\* ExtractedParameter is always truthy. abs(None - x) and None >= x raise
\* TypeError. analysis_details (text) is left out.
analyze_psu_led_compatibility(psu_voltage, psu_current, led_voltage, led_current) ==
    IF None \in {psu_voltage, psu_current, led_voltage, led_current}
    THEN [raised |-> FALSE,
          compatible |-> FALSE,
          decision |-> "Insufficient Data",
          confidence |-> "Low",
          missing_parameters |->
              missing_parameters_of(psu_voltage, psu_current,
                                    led_voltage, led_current)]
    ELSE IF None \in {Val(psu_voltage).numerical_value,
                      Val(led_voltage).numerical_value,
                      Val(psu_current).numerical_value,
                      Val(led_current).numerical_value}
    THEN Raised("TypeError")
    ELSE LET voltage_compatible ==
                check_voltage_compatibility(
                    Val(Val(psu_voltage).numerical_value),
                    Val(Val(led_voltage).numerical_value))
             current_compatible ==
                check_current_compatibility(
                    current_value(Val(psu_current)),
                    current_value(Val(led_current)))
             overall_compatible ==
                voltage_compatible.compatible /\ current_compatible.compatible
             confidence_score ==
                Min4(Val(psu_voltage).confidence, Val(psu_current).confidence,
                     Val(led_voltage).confidence, Val(led_current).confidence)
         IN [raised |-> FALSE,
             compatible |-> overall_compatible,
             decision |-> IF overall_compatible
                          THEN "Compatible" ELSE "Incompatible",
             confidence |-> confidence_level_of(confidence_score),
             confidence_score |-> confidence_score,
             voltage_analysis |-> voltage_compatible,
             current_analysis |-> current_compatible,
             parameter_confidence |->
                 [psu_voltage |-> Val(psu_voltage).confidence,
                  psu_current |-> Val(psu_current).confidence,
                  led_voltage |-> Val(led_voltage).confidence,
                  led_current |-> Val(led_current).confidence]]

(***************************************************************************)
(* Documents: up to four datasheet lines, one per parameter, each line     *)
(* either left out ("") or one of a few wordings and values.               *)
(***************************************************************************)
PsuVoltageLines ==
    {"", "Output Voltage: 12V DC", "Output Voltage: 0V DC", "Output: 5V DC",
     "Output: 5V DC\nOutput Voltage: 12V DC"}

PsuCurrentLines ==
    {"", "Max Output Current: 5 Amps", "Maximum Current: 2.5 Amps"}

LedVoltageLines ==
    {"", "Required Input Voltage: 12V DC", "Operating Voltage: 5V DC"}

LedCurrentLines ==
    {"", "Current Draw: 2.5 Amps", "Current Draw: 6 Amps"}

\* a and b on two lines; an empty line is left out
JoinLines(a, b) == IF a = "" THEN b ELSE IF b = "" THEN a ELSE a \o "\n" \o b

Documents ==
    {JoinLines(JoinLines(a, b), JoinLines(c, d)) :
        a \in PsuVoltageLines, b \in PsuCurrentLines,
        c \in LedVoltageLines, d \in LedCurrentLines}

UserQueries == {"", "Can this PSU drive the LED strip?"}

\* request bodies the handlers fail on: a JSON array, null, a string, a
\* number, and objects whose document_text is a number or null
MalformedBodies ==
    {"[]", "null", "\"abc\"", "5",
     "{\"document_text\": 5}", "{\"document_text\": null}"}

\* requests served in one behaviour of the web layer
MaxRequests == 1

\* the value of key in a set of <<key, value>> pairs
Lookup(table, key) == (CHOOSE e \in table : e[1] = key)[2]

\* the handlers' responses, computed once per document (neither handler
\* reads user_query or the session id to build the verdict)
AppResponses == {<<d, app_analyze(d, "")>> : d \in Documents}

BackendResponses == {<<d, backend_analyze(d, "", 0)>> : d \in Documents}

\* the values a caller of the analyzer passes in one slot: an
\* ExtractedParameter with or without a number, at one of three confidences
VoltageValues == {None, Some(0), Some(1200), Some(1250), Some(1251)}

CurrentValues == {None, Some(0 - 100), Some(0), Some(250), Some(500)}

Confidences == {60, 80, 85}

\* an ExtractedParameter built by a caller
Parameter(param_type, numerical_value, confidence) ==
    [name |-> param_type \o "_0",
     value |-> "",
     numerical_value |-> numerical_value,
     unit |-> "",
     confidence |-> confidence,
     source_text |-> "",
     parameter_type |-> param_type]

VoltageArguments ==
    {None} \cup {Some(Parameter(VOLTAGE, v, c)) : v \in VoltageValues, c \in Confidences}

CurrentArguments ==
    {None} \cup {Some(Parameter(CURRENT, v, c)) : v \in CurrentValues, c \in Confidences}

\* text without a structured word or a list marker, 94 and 95 characters
\* long: under the heading "Product spec" the word "spec" is 100 and 101
\* characters before the first parameter line
Filler94 ==
    "This unit is built for indoor use and ships with wall brackets and a short printed user guide."

Filler95 ==
    "This unit is built for indoor use and ships with wall brackets and a printed guide for the user"

\* documents for the extraction pipeline, built like Documents under an
\* optional heading
HeadingLines ==
    {"", "Technical Specification", JoinLines("Product spec", Filler94)}

CorePsuVoltageLines == {"", "Output Voltage: 12V DC", "Output Voltage: 12.5V"}

CorePsuCurrentLines == {"", "Max Output Current: 5 A", "Output Current: 2.5 A"}

CoreLedVoltageLines ==
    {"", "Required Input Voltage: 12V DC", "Required Input Voltage: 12V",
     "LED Strip Voltage Rating: 13V DC"}

CoreLedCurrentLines ==
    {"", "Current Draw: 2.5 Amps", "Current Draw: 6 A", "Current Draw: 100mA"}

CoreDocuments ==
    {JoinLines(h, JoinLines(JoinLines(a, b), JoinLines(c, d))) :
        h \in HeadingLines,
        a \in CorePsuVoltageLines, b \in CorePsuCurrentLines,
        c \in CoreLedVoltageLines, d \in CoreLedCurrentLines}

vars ==
    <<handler, document_text, user_query, response, sessions, served,
      step, extracted, located, arguments, outcome,
      operation, operand, result, earlier,
      answered, recent, threads, compared>>

webVars == <<handler, user_query, response, sessions, served>>

coreVars == <<step, extracted, located, arguments, outcome>>

extractorVars == <<operation, operand, result, earlier>>

historyVars == <<answered, recent, threads>>

\* the threads that serve requests
Threads == {1, 2}

\* a thread outside save_analysis. Inside it, record is the dict it appends
\* and attached tells whether the list it took from self.sessions is still
\* the one self.sessions names
Idle == [pc |-> "idle", record |-> <<>>, attached |-> FALSE]

NoResponse == [status |-> 0]

NoOutcome == [raised |-> FALSE, decision |-> ""]

NoLocated ==
    [psu_voltage |-> None, psu_current |-> None, led_voltage |-> None,
     led_current |-> None, all_parameters |-> <<>>]

Init ==
    /\ handler = "none"
    /\ document_text = ""
    /\ user_query = ""
    /\ response = NoResponse
    /\ sessions = <<>>
    /\ served = 0
    /\ step = "idle"
    /\ extracted = <<>>
    /\ located = NoLocated
    /\ arguments = NoParameters
    /\ outcome = NoOutcome
    /\ operation = "none"
    /\ operand = <<>>
    /\ result = <<>>
    /\ earlier = <<>>
    /\ answered = <<>>
    /\ recent = <<>>
    /\ threads = [t \in Threads |-> Idle]
    /\ compared = <<>>

\* backend/app.py line 47
truncate_document(text) ==
    IF Len(text) > 500 THEN SubSeq(text, 1, 500) \o "..." ELSE text

\* the dict of lines 45-54; created_at and processing_time_ms (clock
\* readings) are left out of the record
session_record(session_id, text, query, results) ==
    [session_id |-> session_id,
     document_text |-> truncate_document(text),
     user_query |-> query,
     decision |-> results.Decision,
     confidence |-> results.Confidence_Score,
     success |-> results.Decision # "Error"]

\* self.sessions[-100:]
last_hundred(history) ==
    SubSeq(history, Max2(Len(history) - 100, 0) + 1, Len(history))

\* save_analysis keeping the first hundred sessions: self.sessions[:100]
save_analysis_oldest(history, session_id, text, query, results) ==
    LET appended ==
            Append(history, session_record(session_id, text, query, results))
    IN IF Len(appended) > 100 THEN SubSeq(appended, 1, 100) ELSE appended

\* AnalysisHistory.save_analysis, run by one thread without interruption
save_analysis(history, session_id, text, query, results) ==
    LET appended ==
            Append(history, session_record(session_id, text, query, results))
    IN IF Len(appended) > 100 THEN last_hundred(appended) ELSE appended

\* self.sessions[-limit:] of line 63: a negative start counts from the end
\* and stops at the first entry, and -0 is 0, the start of the list
get_recent_sessions(history, limit) ==
    SubSeq(history,
           (IF limit > 0 THEN Max2(Len(history) - limit, 0)
            ELSE Min2(0 - limit, Len(history))) + 1,
           Len(history))

\* POST /analyze of src/app.py
AppAnalyze ==
    /\ served < MaxRequests
    /\ \E d \in Documents, q \in UserQueries :
        /\ handler' = "app"
        /\ document_text' = d
        /\ user_query' = q
        /\ response' = Lookup(AppResponses, d)
        /\ served' = served + 1
        /\ UNCHANGED <<sessions, coreVars, extractorVars, historyVars, compared>>

\* POST /analyze of backend/app.py; the session id (a uuid4) is fresh
BackendAnalyze ==
    /\ served < MaxRequests
    /\ \E d \in Documents, q \in UserQueries :
        /\ handler' = "backend"
        /\ document_text' = d
        /\ user_query' = q
        /\ response' =
              [Lookup(BackendResponses, d) EXCEPT
                  !.Analysis_Details.session_id = served + 1]
        /\ sessions' = save_analysis(sessions, served + 1, d, q, response')
        /\ served' = served + 1
        /\ UNCHANGED <<coreVars, extractorVars, historyVars, compared>>

\* POST /clear-history of backend/app.py
ClearHistory ==
    /\ sessions' = <<>>
    /\ UNCHANGED <<handler, document_text, user_query, response, served,
                   coreVars, extractorVars, historyVars, compared>>

\* POST /analyze of src/app.py with a body the try block fails on; the
\* request's body, which has no document_text to read, is kept in its place
AppAnalyzeError ==
    /\ served < MaxRequests
    /\ \E body \in MalformedBodies :
        /\ handler' = "app"
        /\ document_text' = body
        /\ user_query' = ""
        /\ response' = app_error_response(analyze_failure(get_json(body)))
        /\ served' = served + 1
        /\ UNCHANGED <<sessions, coreVars, extractorVars, historyVars, compared>>

\* POST /analyze of backend/app.py with a body the try block fails on:
\* save_analysis is not reached
BackendAnalyzeError ==
    /\ served < MaxRequests
    /\ \E body \in MalformedBodies :
        /\ handler' = "backend"
        /\ document_text' = body
        /\ user_query' = ""
        /\ response' = backend_error_response(analyze_failure(get_json(body)))
        /\ served' = served + 1
        /\ UNCHANGED <<sessions, coreVars, extractorVars, historyVars, compared>>

Next ==
    \/ AppAnalyze
    \/ BackendAnalyze
    \/ ClearHistory
    \/ AppAnalyzeError
    \/ BackendAnalyzeError

Spec == Init /\ [][Next]_vars

\* a caller runs find_psu_led_parameters on a document and passes the four
\* parameters it returns to the analyzer
FindParameters ==
    /\ step = "idle"
    /\ \E d \in CoreDocuments :
        /\ document_text' = d
        /\ extracted' = collect_all_parameters(d)
        /\ located' = find_psu_led_parameters(d)
        /\ arguments' = [psu_voltage |-> located'.psu_voltage,
                         psu_current |-> located'.psu_current,
                         led_voltage |-> located'.led_voltage,
                         led_current |-> located'.led_current]
        /\ step' = "called"
        /\ UNCHANGED <<outcome, webVars, extractorVars, historyVars, compared>>

\* a caller passes four parameters of its own to the analyzer
SupplyParameters ==
    /\ step = "idle"
    /\ \E pv \in VoltageArguments, pc \in CurrentArguments,
          lv \in VoltageArguments, lc \in CurrentArguments :
        /\ arguments' = [psu_voltage |-> pv, psu_current |-> pc,
                         led_voltage |-> lv, led_current |-> lc]
        /\ step' = "called"
        /\ UNCHANGED <<document_text, extracted, located, outcome, webVars,
                       extractorVars, historyVars, compared>>

\* analyze_psu_led_compatibility runs on the arguments
Analyze ==
    /\ step = "called"
    /\ outcome' = analyze_psu_led_compatibility(
                      arguments.psu_voltage, arguments.psu_current,
                      arguments.led_voltage, arguments.led_current)
    /\ step' = "returned"
    /\ UNCHANGED <<document_text, extracted, located, arguments, webVars,
                   extractorVars, historyVars, compared>>

NextCore == FindParameters \/ SupplyParameters \/ Analyze

SpecCore == Init /\ [][NextCore]_vars

(***************************************************************************)
(* The extractor on its own: each method of TechnicalParameterExtractor    *)
(* called once on an argument, and some of them called a second time.      *)
(***************************************************************************)
\* the value texts given to _extract_numerical_value
ValueTexts ==
    {"", "abc", "V DC", "°C", "12V DC", "3.3V", "2.5 Amps", "0V",
     "10 to 50", "10-50", "1.5 - 3", "0 to 70°C",
     "-20°C to 85°C", "-20 to 85", "- to 85"}

\* the longest list given to _deduplicate_parameters and to the loop of
\* find_psu_led_parameters
MaxParameters == 3

\* an ExtractedParameter as _extract_parameter_type builds it
Extracted(param_type, numerical_value, unit, confidence, source_text) ==
    [name |-> param_type \o "_0",
     value |-> "",
     numerical_value |-> numerical_value,
     unit |-> unit,
     confidence |-> confidence,
     source_text |-> source_text,
     parameter_type |-> param_type]

\* the lists of up to MaxParameters members of a set, as sequences
ListsOf(members) ==
    UNION {[1..n -> members] : n \in 0..MaxParameters}

\* parameters that share keys, with and without the case of the unit
DuplicateCandidates ==
    {Extracted(VOLTAGE, Some(1200), u, c, "") :
        u \in {"V DC", "V dc"}, c \in {70, 85}}
    \cup {Extracted(VOLTAGE, Some(500), "V DC", 85, ""),
          Extracted(CURRENT, Some(500), "A", 85, "")}

\* the name of the parameter at each position tells the entries of a list
\* apart: name is param_type_<position - 1>
Numbered(parameters) ==
    [i \in 1..Len(parameters) |->
        [parameters[i] EXCEPT
            !.name = parameters[i].parameter_type \o "_" \o ToStr(i - 1)]]

\* the source texts of voltage and current parameters: with a PSU
\* indicator, with an LED indicator, with both, and a voltage with neither
VoltageSourceTexts ==
    {"Output Voltage: 12V", "Input Voltage: 12V",
     "LED Output Voltage: 12V", "Operating Voltage: 12V"}

CurrentSourceTexts ==
    {"Output Current: 2A", "Current Draw: 2A", "LED Output Current: 2A"}

RoleCandidates ==
    {Extracted(VOLTAGE, Some(1200), "V", 85, t) : t \in VoltageSourceTexts}
    \cup {Extracted(VOLTAGE, Some(1200), "V", 70, "Output Voltage: 12V")}
    \cup {Extracted(CURRENT, Some(200), "A", 85, t) : t \in CurrentSourceTexts}
    \cup {Extracted(POWER, Some(6000), "W", 85, "Output Power: 60W")}

\* a list as extract_all_parameters returns it has one entry per key: the
\* number of each entry is made its position
Distinct(parameters) ==
    [i \in 1..Len(parameters) |->
        [parameters[i] EXCEPT !.numerical_value = Some(100 * i)]]

DocumentHeads ==
    {"",
     "Product spec",
     JoinLines("Product spec", Filler94),
     JoinLines("Product spec", Filler95)}

FirstLines ==
    {"", "Output Voltage: 12V DC", "Operating Temperature: -20°C to 85°C",
     "12 volts of output", "no numbers here"}

SecondLines ==
    {"", "Max Output Current: 2.5 A", "Rated Power: 60W", "Frequency: 50Hz",
     "* Input Voltage: 12V", "Current Draw: 2 Amps\nSee the datasheet"}

\* the documents given to extract_all_parameters: the lines above, a line
\* that two voltage patterns match with a structured word near or 96
\* characters after it, and two lines with the same voltage
ExtractorDocuments ==
    {JoinLines(h, JoinLines(a, b)) :
        h \in DocumentHeads, a \in FirstLines, b \in SecondLines}
    \cup {JoinLines("Output Voltage: 12V DC output", JoinLines(f, "spec sheet")) :
            f \in {"", Filler94}}
    \cup {JoinLines("Output Voltage: 12V", "Input Voltage: 12V")}

\* _extract_numerical_value(text)
ExtractNumericalValue ==
    /\ operation = "none"
    /\ \E text \in ValueTexts :
        /\ operation' = "_extract_numerical_value"
        /\ operand' = text
        /\ result' = param_numerical_value(text)
        /\ earlier' = result
        /\ UNCHANGED <<document_text, webVars, coreVars, historyVars, compared>>

\* _deduplicate_parameters(parameters)
DeduplicateParameters ==
    /\ operation = "none"
    /\ \E parameters \in ListsOf(DuplicateCandidates) :
        /\ operation' = "_deduplicate_parameters"
        /\ operand' = Numbered(parameters)
        /\ result' = deduplicate_parameters(operand')
        /\ earlier' = result
        /\ UNCHANGED <<document_text, webVars, coreVars, historyVars, compared>>

\* _deduplicate_parameters on the list it has just returned
DeduplicateAgain ==
    /\ operation = "_deduplicate_parameters"
    /\ operation' = "_deduplicate_parameters again"
    /\ operand' = result
    /\ result' = deduplicate_parameters(result)
    /\ earlier' = result
    /\ UNCHANGED <<document_text, webVars, coreVars, historyVars, compared>>

\* extract_all_parameters(document_text)
ExtractAllParameters ==
    /\ operation = "none"
    /\ \E d \in ExtractorDocuments :
        /\ operation' = "extract_all_parameters"
        /\ operand' = d
        /\ result' = extract_all_parameters(d)
        /\ earlier' = result
        /\ UNCHANGED <<document_text, webVars, coreVars, historyVars, compared>>

\* a second run of extract_all_parameters on the same text
ExtractAllAgain ==
    /\ operation = "extract_all_parameters"
    /\ operation' = "extract_all_parameters again"
    /\ operand' = operand
    /\ result' = extract_all_parameters(operand)
    /\ earlier' = result
    /\ UNCHANGED <<document_text, webVars, coreVars, historyVars, compared>>

\* the loop of find_psu_led_parameters (lines 203-223) over all_params
FindPsuLedParameters ==
    /\ operation = "none"
    /\ \E all_params \in ListsOf(RoleCandidates) :
        /\ operation' = "find_psu_led_parameters"
        /\ operand' = Numbered(Distinct(all_params))
        /\ result' = categorize(operand', 1, NoParameters)
        /\ earlier' = result
        /\ UNCHANGED <<document_text, webVars, coreVars, historyVars, compared>>

NextExtractor ==
    \/ ExtractNumericalValue
    \/ DeduplicateParameters
    \/ DeduplicateAgain
    \/ ExtractAllParameters
    \/ ExtractAllAgain
    \/ FindPsuLedParameters

SpecExtractor == Init /\ [][NextExtractor]_vars

(***************************************************************************)
(* Requests one after another: each /analyze handler answers several       *)
(* requests, and every answer is kept.                                     *)
(***************************************************************************)
\* documents with each verdict of the handlers: Compatible, Incompatible,
\* Not Explicitly Covered
RepeatDocuments ==
    {JoinLines(JoinLines(a, "Max Output Current: 5 Amps"),
               JoinLines(c, "Current Draw: 2.5 Amps")) :
        a \in {"Output Voltage: 12V DC", "Output: 5V DC"},
        c \in {"", "Required Input Voltage: 12V DC"}}

\* the second query reads like a line of a datasheet
RepeatQueries == {"", "Is Output Voltage: 24V DC enough?"}

\* requests answered in one behaviour
MaxAnswered == 2

Answer(program, d, q, r) ==
    [handler |-> program, document_text |-> d, user_query |-> q, response |-> r]

\* POST /analyze of src/app.py
AppRequest ==
    /\ Len(answered) < MaxAnswered
    /\ \E d \in RepeatDocuments, q \in RepeatQueries :
        /\ handler' = "app"
        /\ document_text' = d
        /\ user_query' = q
        /\ response' = app_analyze(d, q)
        /\ answered' = Append(answered, Answer("app", d, q, response'))
        /\ served' = served + 1
        /\ UNCHANGED <<sessions, coreVars, extractorVars, recent, threads, compared>>

\* POST /analyze of backend/app.py; the session id (a uuid4) is fresh
BackendRequest ==
    /\ Len(answered) < MaxAnswered
    /\ \E d \in RepeatDocuments, q \in RepeatQueries :
        /\ handler' = "backend"
        /\ document_text' = d
        /\ user_query' = q
        /\ response' = backend_analyze(d, q, served + 1)
        /\ sessions' = save_analysis(sessions, served + 1, d, q, response')
        /\ answered' = Append(answered, Answer("backend", d, q, response'))
        /\ served' = served + 1
        /\ UNCHANGED <<coreVars, extractorVars, recent, threads, compared>>

NextRepeat == AppRequest \/ BackendRequest \/ ClearHistory

SpecRepeat == Init /\ [][NextRepeat]_vars

(***************************************************************************)
(* The history on its own: save_analysis and get_recent_sessions called    *)
(* one at a time.                                                          *)
(***************************************************************************)
\* the document and the results of every saved analysis
HistoryDocument == "Output Voltage: 12V DC"

HistoryResults == backend_analyze(HistoryDocument, "", 0)

\* calls of save_analysis in one behaviour
MaxSaves == 102

\* the limits given to get_recent_sessions; get_analysis_history gives 20
Limits == {0, 1, 20, 101}

\* analysis_history.save_analysis(...), the session id being the number of
\* the call
SaveAnalysis ==
    /\ served < MaxSaves
    /\ sessions' = save_analysis(sessions, served + 1, HistoryDocument, "",
                                 HistoryResults)
    /\ served' = served + 1
    /\ UNCHANGED <<handler, document_text, user_query, response, coreVars,
                   extractorVars, answered, recent, threads, compared>>

\* analysis_history.get_recent_sessions(limit)
GetRecentSessions ==
    /\ \E limit \in Limits :
        recent' = [limit |-> limit, sessions |-> sessions,
                   returned |-> get_recent_sessions(sessions, limit)]
    /\ UNCHANGED <<document_text, webVars, coreVars, extractorVars, answered,
                   threads, compared>>

NextHistory == SaveAnalysis \/ GetRecentSessions

SpecHistory == Init /\ [][NextHistory]_vars

(***************************************************************************)
(* The history shared by threads: save_analysis run by two threads at      *)
(* once. A thread can be switched out wherever save_analysis makes a call: *)
(* after it has taken self.sessions.append and while it builds the dict    *)
(* (len, results.get, datetime.now), after append, and after len.          *)
(***************************************************************************)
\* the first calls are made one at a time, the later ones together
SequentialSaves == 99

AllIdle == \A t \in Threads : threads[t].pc = "idle"

\* line 45, the callee: the thread takes the list self.sessions names and
\* its append, and goes on to build the dict
BeginSave(t) ==
    /\ threads[t].pc = "idle"
    /\ served < MaxSaves
    /\ served < SequentialSaves => AllIdle
    /\ served' = served + 1
    /\ threads' = [threads EXCEPT ![t] =
                      [pc |-> "append",
                       record |-> session_record(served + 1, HistoryDocument,
                                                 "", HistoryResults),
                       attached |-> TRUE]]
    /\ UNCHANGED <<handler, document_text, user_query, response, sessions,
                   coreVars, extractorVars, answered, recent, compared>>

\* line 45, the call: the dict goes to the list the thread took, which
\* self.sessions may name no longer
AppendRecord(t) ==
    /\ threads[t].pc = "append"
    /\ sessions' = IF threads[t].attached
                   THEN Append(sessions, threads[t].record) ELSE sessions
    /\ answered' = Append(answered, threads[t].record.session_id)
    /\ threads' = [threads EXCEPT ![t].pc = "test", ![t].attached = FALSE]
    /\ UNCHANGED <<handler, document_text, user_query, response, served,
                   coreVars, extractorVars, recent, compared>>

\* line 56: if len(self.sessions) > 100
TestLength(t) ==
    /\ threads[t].pc = "test"
    /\ threads' = [threads EXCEPT ![t] =
                      IF Len(sessions) > 100
                      THEN [threads[t] EXCEPT !.pc = "truncate"] ELSE Idle]
    /\ UNCHANGED <<handler, document_text, user_query, response, sessions,
                   served, coreVars, extractorVars, answered, recent, compared>>

\* line 57: self.sessions names a new list, and the threads that took the
\* old one hold a list that is no longer the history
TruncateSessions(t) ==
    /\ threads[t].pc = "truncate"
    /\ sessions' = last_hundred(sessions)
    /\ threads' = [u \in Threads |->
                      IF u = t THEN Idle
                      ELSE [threads[u] EXCEPT !.attached = FALSE]]
    /\ UNCHANGED <<handler, document_text, user_query, response, served,
                   coreVars, extractorVars, answered, recent, compared>>

NextThreads ==
    \E t \in Threads :
        \/ BeginSave(t)
        \/ AppendRecord(t)
        \/ TestLength(t)
        \/ TruncateSessions(t)

SpecThreads == Init /\ [][NextThreads]_vars

(***************************************************************************)
(* The three voltage checks on the voltages the web-layer patterns capture *)
(***************************************************************************)
\* the largest voltage written with few digits
MaxVolts == 11

RECURSIVE Nines(_)
\* n digits 9
Nines(n) ==
    IF n = 0 THEN ""
    ELSE IF n % 2 = 1 THEN "9" \o Nines(n - 1)
    ELSE LET half == Nines(n \div 2) IN half \o half

\* the digits of a voltage: [0-9]+ captures any number of them
VoltageDigits == {ToStr(n) : n \in 0..MaxVolts} \cup {Nines(OverflowDigits)}

\* a data sheet whose two voltage lines carry the digits p and l
VoltageDocument(p, l) ==
    JoinText("Output Voltage: " \o p \o "V DC",
             "Required Input Voltage: " \o l \o " V DC")

\* the three checks on the numbers of the two captured voltages
voltage_checks(psu_voltage, led_voltage) ==
    [psu_voltage |-> psu_voltage,
     led_voltage |-> led_voltage,
     app |-> app_voltage_match(psu_voltage, led_voltage),
     backend |-> backend_voltage_match(psu_voltage, led_voltage),
     core |-> check_voltage_compatibility(psu_voltage, led_voltage).compatible]

\* the two voltages of a document are captured by the patterns of src/app.py,
\* turned into numbers by extract_numerical_value, and given to each check;
\* a behaviour compares one pair
CompareVoltages ==
    /\ compared = <<>>
    /\ \E p \in VoltageDigits, l \in VoltageDigits :
        /\ document_text' = VoltageDocument(p, l)
        /\ compared' =
              voltage_checks(
                  Val(extract_numerical_value(
                      extract_parameter(document_text',
                                        psu_output_voltage_patterns))),
                  Val(extract_numerical_value(
                      extract_parameter(document_text',
                                        led_input_voltage_patterns))))
    /\ UNCHANGED <<webVars, coreVars, extractorVars, historyVars>>

NextVoltage == CompareVoltages

SpecVoltage == Init /\ [][NextVoltage]_vars

(***************************************************************************)
(* Properties of the web handlers (specification Spec)                     *)
(***************************************************************************)
\* the four strings each handler captures from a document
AppCaptures ==
    {<<d, [psu_voltage |-> extract_parameter(d, psu_output_voltage_patterns),
           psu_current |-> extract_parameter(d, psu_max_current_patterns),
           led_voltage |-> extract_parameter(d, led_input_voltage_patterns),
           led_current |-> extract_parameter(d, led_current_draw_patterns)]>> :
        d \in Documents}

BackendCaptures ==
    {<<d, [psu_voltage |-> extract_parameter(d, backend_psu_output_voltage_patterns),
           psu_current |-> extract_parameter(d, backend_psu_max_current_patterns),
           led_voltage |-> extract_parameter(d, backend_led_input_voltage_patterns),
           led_current |-> extract_parameter(d, backend_led_current_draw_patterns)]>> :
        d \in Documents}

Slots == {"psu_voltage", "psu_current", "led_voltage", "led_current"}

\* a well-formed request has been served
Served == handler \in {"app", "backend"} /\ response.status = 200

\* what the serving handler captured from the last document
Captured ==
    IF handler = "backend" THEN Lookup(BackendCaptures, document_text)
    ELSE Lookup(AppCaptures, document_text)

\* the number in each captured string
CapturedNumber == [f \in Slots |-> extract_numerical_value(Captured[f])]

AllMatched == \A f \in Slots : Captured[f] # None

AllParsed == AllMatched /\ \A f \in Slots : CapturedNumber[f] # None

\* the numbers, once AllParsed
Number == [f \in Slots |-> Val(CapturedNumber[f])]

\* the response field of each slot
DataField ==
    [psu_voltage |-> response.Extracted_Technical_Data.PSU_Output_Voltage,
     psu_current |-> response.Extracted_Technical_Data.PSU_Max_Output_Current,
     led_voltage |-> response.Extracted_Technical_Data.LED_Required_Voltage,
     led_current |-> response.Extracted_Technical_Data.LED_Current_Draw]

C1_Case ==
    /\ Served
    /\ AllParsed
    /\ Number.psu_voltage = Number.led_voltage
    /\ Number.psu_voltage > 0
    /\ Number.led_current > 0
    /\ Number.psu_current > 0
    /\ Number.psu_current >= Number.led_current

C2_Case == handler = "backend" /\ AllParsed

\* C2: in the second handler, whenever all four parameters are matched and
\* their numbers parse, the Decision is "Compatible" or "Incompatible" with
\* Confidence_Score "High"; a PSU current below the LED current or a PSU
\* voltage other than the LED voltage gives "Incompatible" with a
\* justification naming "Insufficient current" or "Voltage mismatch".
C2_BackendDecidesWhenAllParsed ==
    C2_Case =>
        /\ response.Decision \in {"Compatible", "Incompatible"}
        /\ response.Confidence_Score = "High"
        /\ (\/ Number.psu_current < Number.led_current
            \/ Number.psu_voltage # Number.led_voltage)
           => /\ response.Decision = "Incompatible"
              /\ \/ Contains(response.Justification, "Insufficient current")
                 \/ Contains(response.Justification, "Voltage mismatch")

\* what the second handler answers instead when the PSU current is too low
C2_Undecided ==
    /\ C2_Case
    /\ Number.psu_voltage = Number.led_voltage
    /\ Number.psu_current < Number.led_current
    /\ response.Decision = "Not Explicitly Covered"
    /\ response.Confidence_Score = "Medium"

C4_Case == Served /\ ~AllMatched

\* C4: in both /analyze handlers, a document (the empty one included) in
\* which at least one of the four parameters is not matched is answered with
\* Decision "Not Explicitly Covered", Confidence_Score "Low", no
\* Referenced_Sections, and each Extracted_Technical_Data field is
\* "Not Found" exactly when its parameter was not matched, and the captured
\* text otherwise.
C4_UnmatchedIsNotCovered ==
    C4_Case =>
        /\ response.Decision = "Not Explicitly Covered"
        /\ response.Confidence_Score = "Low"
        /\ response.Referenced_Sections = <<>>
        /\ \A f \in Slots :
              /\ (DataField[f] = "Not Found") <=> (Captured[f] = None)
              /\ Captured[f] # None => DataField[f] = Val(Captured[f])

\* a document with a PSU voltage and an LED current but no LED voltage
C4_Witness ==
    /\ C4_Case
    /\ handler = "backend"
    /\ Captured.psu_voltage # None
    /\ Captured.led_current # None
    /\ Captured.led_voltage = None
    /\ DataField.led_voltage = "Not Found"
    /\ response.Confidence_Score = "Low"

C5_Case == handler = "app" /\ AllParsed

\* C5: the first handler answers Confidence_Score "Medium" only when a
\* matched field yields no number; whenever all four matched fields yield a
\* number, 0 included, it answers "Compatible" or "Incompatible" with
\* Confidence_Score "High".
C5_AppDecidesWhenAllParsed ==
    /\ (handler = "app" /\ response.Confidence_Score = "Medium")
       => \E f \in Slots : Captured[f] # None /\ CapturedNumber[f] = None
    /\ C5_Case =>
          /\ response.Decision \in {"Compatible", "Incompatible"}
          /\ response.Confidence_Score = "High"

\* what the first handler answers instead for a PSU voltage of 0
C5_ZeroIsUndecided ==
    /\ C5_Case
    /\ Number.psu_voltage = 0
    /\ response.Decision = "Not Explicitly Covered"
    /\ response.Confidence_Score = "Medium"

(***************************************************************************)
(* Properties of the core (specification SpecCore)                         *)
(***************************************************************************)
Returned == step = "returned"

AllPresent == \A f \in Slots : arguments[f] # None

\* all four arguments are present and carry a number
AllNumeric ==
    AllPresent /\ \A f \in Slots : Val(arguments[f]).numerical_value # None

\* the numbers and confidences of the arguments, once AllNumeric
ArgumentNumber == [f \in Slots |-> Val(Val(arguments[f]).numerical_value)]

ArgumentConfidence == [f \in Slots |-> Val(arguments[f]).confidence]

\* the role _is_psu_parameter / _is_led_parameter give a parameter
SourceLabelled(param) == is_psu_parameter(param.source_text)

SinkLabelled(param) ==
    ~is_psu_parameter(param.source_text) /\ is_led_parameter(param.source_text)

\* the document states a source and a sink voltage of one value and unit and
\* a source current at least the sink current
C3_Case ==
    /\ Returned
    /\ \E i, j \in 1..Len(extracted) :
          /\ extracted[i].parameter_type = VOLTAGE /\ SourceLabelled(extracted[i])
          /\ extracted[j].parameter_type = VOLTAGE /\ SinkLabelled(extracted[j])
          /\ extracted[i].numerical_value = extracted[j].numerical_value
          /\ extracted[i].unit = extracted[j].unit
    /\ \E i, j \in 1..Len(extracted) :
          /\ extracted[i].parameter_type = CURRENT /\ SourceLabelled(extracted[i])
          /\ extracted[j].parameter_type = CURRENT /\ SinkLabelled(extracted[j])
          /\ Val(extracted[i].numerical_value) >= Val(extracted[j].numerical_value)

\* C3: through extract_all_parameters, find_psu_led_parameters and
\* analyze_psu_led_compatibility, a document stating a source-labelled and a
\* sink-labelled voltage of the same value and unit, and a source-labelled
\* current at least the sink-labelled current, keeps a parameter for each of
\* the four roles and is decided "Compatible".
C3_SameVoltageKeepsBothRoles ==
    C3_Case =>
        /\ AllPresent
        /\ ~outcome.raised
        /\ outcome.decision = "Compatible"

\* what the pipeline returns instead: the LED voltage is gone
C3_SinkVoltageLost ==
    /\ C3_Case
    /\ arguments.psu_voltage # None
    /\ arguments.led_voltage = None
    /\ outcome.decision = "Insufficient Data"
    /\ outcome.missing_parameters = <<"LED voltage">>

MissingName ==
    [psu_voltage |-> "PSU voltage", psu_current |-> "PSU current",
     led_voltage |-> "LED voltage", led_current |-> "LED current"]

SlotOrder == <<"psu_voltage", "psu_current", "led_voltage", "led_current">>

RECURSIVE AbsentFrom(_)
\* the names of the absent arguments from slot i on, in SlotOrder
AbsentFrom(i) ==
    IF i > Len(SlotOrder) THEN <<>>
    ELSE (IF arguments[SlotOrder[i]] = None
          THEN <<MissingName[SlotOrder[i]]>> ELSE <<>>) \o AbsentFrom(i + 1)

\* C6: analyze_psu_led_compatibility returns decision "Insufficient Data"
\* with confidence "Low" if and only if at least one of its four parameters
\* is absent, and missing_parameters then names exactly the absent ones in
\* the order PSU voltage, PSU current, LED voltage, LED current.
C6_InsufficientIffAbsent ==
    Returned =>
        /\ (/\ ~outcome.raised
            /\ outcome.decision = "Insufficient Data"
            /\ outcome.confidence = "Low") <=> ~AllPresent
        /\ ~AllPresent => outcome.missing_parameters = AbsentFrom(1)

\* the PSU current and the LED voltage are absent, the other two present
C6_Witness ==
    /\ Returned
    /\ arguments.psu_voltage # None
    /\ arguments.psu_current = None
    /\ arguments.led_voltage = None
    /\ arguments.led_current # None
    /\ outcome.decision = "Insufficient Data"
    /\ outcome.missing_parameters = <<"PSU current", "LED voltage">>

\* C7: analyze_psu_led_compatibility never raises: for every four inputs,
\* a present parameter without a number and zero or negative numbers
\* included, it returns a verdict, and a parameter without a number gives
\* "Insufficient Data".
C7_NeverRaises ==
    Returned =>
        /\ ~outcome.raised
        /\ (AllPresent /\ ~AllNumeric) => outcome.decision = "Insufficient Data"

\* what happens instead: four present parameters, one without a number
C7_RaisesTypeError ==
    /\ Returned
    /\ AllPresent
    /\ ~AllNumeric
    /\ outcome.raised
    /\ outcome.exception = "TypeError"

VoltageDifference ==
    Abs(ArgumentNumber.psu_voltage - ArgumentNumber.led_voltage)

\* C8: _check_voltage_compatibility reports compatible exactly when
\* |psu_voltage - led_voltage| <= 0.5, the bound included: a difference of
\* 0.5 V is compatible, one of 0.51 V is not, and swapping the two arguments
\* gives the same result.
C8_ToleranceIsInclusiveAndSymmetric ==
    (Returned /\ AllNumeric) =>
        /\ outcome.voltage_analysis.compatible <=> VoltageDifference <= 50
        /\ VoltageDifference = 50 => outcome.voltage_analysis.compatible
        /\ VoltageDifference = 51 => ~outcome.voltage_analysis.compatible
        /\ check_voltage_compatibility(ArgumentNumber.led_voltage,
                                       ArgumentNumber.psu_voltage).compatible
           = outcome.voltage_analysis.compatible

\* the voltages differ by exactly 0.5 V
C8_Witness ==
    /\ Returned
    /\ AllNumeric
    /\ ArgumentNumber.psu_voltage = 1250
    /\ ArgumentNumber.led_voltage = 1200
    /\ outcome.voltage_analysis.compatible

\* C9: with all four parameters present and numeric, the current check is
\* psu_current >= led_current, the decision is "Compatible" if and only if
\* the voltage check and the current check both hold and "Incompatible"
\* otherwise, and the field compatible is true exactly when the decision is
\* "Compatible".
C9_DecisionIsBothChecks ==
    (Returned /\ AllNumeric) =>
        /\ outcome.current_analysis.compatible
           <=> ArgumentNumber.psu_current >= ArgumentNumber.led_current
        /\ outcome.decision = "Compatible"
           <=> (/\ outcome.voltage_analysis.compatible
                /\ outcome.current_analysis.compatible)
        /\ outcome.decision \in {"Compatible", "Incompatible"}
        /\ outcome.compatible <=> outcome.decision = "Compatible"

\* equal currents under matching voltages
C9_Witness ==
    /\ Returned
    /\ AllNumeric
    /\ ArgumentNumber.psu_current = ArgumentNumber.led_current
    /\ ArgumentNumber.psu_current > 0
    /\ outcome.voltage_analysis.compatible
    /\ outcome.decision = "Compatible"

\* the least of the four confidences
LeastConfidence ==
    CHOOSE c \in {ArgumentConfidence[f] : f \in Slots} :
        \A f \in Slots : c <= ArgumentConfidence[f]

\* C10: with all four parameters present, the confidence level follows the
\* least of the four parameter confidences: "High" above 0.8, "Medium" above
\* 0.6 and up to 0.8, "Low" up to 0.6, whatever the decision.
C10_ConfidenceFollowsLeast ==
    (Returned /\ AllNumeric) =>
        /\ outcome.confidence_score = LeastConfidence
        /\ outcome.confidence = "High" <=> LeastConfidence > 80
        /\ outcome.confidence = "Medium"
           <=> (LeastConfidence > 60 /\ LeastConfidence <= 80)
        /\ outcome.confidence = "Low" <=> LeastConfidence <= 60

\* a least confidence of exactly 0.8 under an incompatible decision
C10_Witness ==
    /\ Returned
    /\ AllNumeric
    /\ LeastConfidence = 80
    /\ \E f \in Slots : ArgumentConfidence[f] = 85
    /\ outcome.decision = "Incompatible"
    /\ outcome.confidence = "Medium"

\* C11: for every sink current that is zero or negative and every source
\* current, _check_current_compatibility returns compatible = true and
\* safety_margin = 0, without dividing by zero.
C11_NonPositiveSinkIsCompatible ==
    (Returned /\ AllNumeric /\ ArgumentNumber.led_current <= 0) =>
        /\ outcome.current_analysis.compatible
        /\ outcome.current_analysis.safety_margin.num = 0
        /\ outcome.current_analysis.safety_margin.den # 0

\* what the check returns instead for a source current below a sink current
\* of zero: the margin is 0 and the currents are not compatible
C11_LowerSourceIsIncompatible ==
    /\ Returned
    /\ AllNumeric
    /\ ArgumentNumber.led_current = 0
    /\ ArgumentNumber.psu_current < 0
    /\ ~outcome.current_analysis.compatible
    /\ outcome.current_analysis.safety_margin.num = 0

(***************************************************************************)
(* Properties of the extractor (specification SpecExtractor)               *)
(***************************************************************************)
HasDigit(text) == \E i \in 1..Len(text) : CharAt(text, i) \in DIGITS

\* the text starts with a number, with or without a minus sign
StartsWithNumber(text) ==
    \/ Len(text) >= 1 /\ CharAt(text, 1) \in DIGITS
    \/ Len(text) >= 2 /\ CharAt(text, 1) = "-" /\ CharAt(text, 2) \in DIGITS

\* a range "N to M" or "N-M"
IsRangeText(text) ==
    /\ StartsWithNumber(text)
    /\ \/ Contains(text, "to")
       \/ Contains(SubSeq(text, 2, Len(text)), "-")

\* the number a range text starts with, sign included
SignedLowerBound(text) ==
    IF CharAt(text, 1) = "-"
    THEN 0 - float(SubSeq(text, 2, Len(text)))
    ELSE float(text)

\* C12: _extract_numerical_value returns the lower bound of a range with its
\* sign: the negative lower bound of a range that starts with a negative
\* number ("-20°C to 85°C" gives -20.0), and N for "N to M" or "N-M" with a
\* non-negative N.
C12_LowerBoundKeepsSign ==
    (operation = "_extract_numerical_value" /\ IsRangeText(operand)) =>
        result = Some(SignedLowerBound(operand))

\* what it returns instead for "-20°C to 85°C": 20.0
C12_SignDropped ==
    /\ operation = "_extract_numerical_value"
    /\ operand = "-20°C to 85°C"
    /\ SignedLowerBound(operand) = 0 - 2000
    /\ result = Some(2000)

HasRangeToken(text) == Contains(text, "to") \/ Contains(text, "-")

\* the decimal number that starts at the first digit of the text
FirstDecimal(text) ==
    LET first == CHOOSE i \in 1..Len(text) :
                    /\ CharAt(text, i) \in DIGITS
                    /\ \A j \in 1..(i - 1) : CharAt(text, j) \notin DIGITS
    IN float(SubSeq(text, first, Len(text)))

ExtractedAll ==
    operation \in {"extract_all_parameters", "extract_all_parameters again"}

\* C13: numerical_value is absent if and only if the value text contains no
\* digit; for a text with digits and no range token it is the first decimal
\* number of the text; and every parameter extract_all_parameters produces
\* from the pattern library has a numerical_value.
C13_NumberIffDigit ==
    /\ operation = "_extract_numerical_value" =>
          /\ result = None <=> ~HasDigit(operand)
          /\ (HasDigit(operand) /\ ~HasRangeToken(operand)) =>
                result = Some(FirstDecimal(operand))
    /\ ExtractedAll =>
          \A i \in 1..Len(result) :
              /\ HasDigit(result[i].value)
              /\ result[i].numerical_value # None

\* a document with a temperature range and a decimal current: both
\* parameters carry a number
C13_Witness ==
    /\ operation = "extract_all_parameters"
    /\ \E i, j \in 1..Len(result) :
          /\ result[i].parameter_type = TEMPERATURE
          /\ result[i].value = "-20°C to 85°C"
          /\ result[i].numerical_value # None
          /\ result[j].parameter_type = CURRENT
          /\ result[j].value = "2.5 A"
          /\ result[j].numerical_value = Some(250)

\* the key of the claim: kind, number, lower-cased unit
KeyOf(param) ==
    <<param.parameter_type, param.numerical_value, Lower(param.unit)>>

KeysOf(parameters) == {KeyOf(parameters[i]) : i \in 1..Len(parameters)}

\* the position of the first entry of the list with the key
FirstWith(parameters, key) ==
    CHOOSE i \in 1..Len(parameters) :
        /\ KeyOf(parameters[i]) = key
        /\ \A j \in 1..(i - 1) : KeyOf(parameters[j]) # key

\* the position of the entry of the list to keep for the key: the highest
\* confidence, the earliest one on a tie
BestWith(parameters, key) ==
    CHOOSE i \in 1..Len(parameters) :
        /\ KeyOf(parameters[i]) = key
        /\ \A j \in 1..Len(parameters) :
              KeyOf(parameters[j]) = key =>
                  \/ parameters[j].confidence < parameters[i].confidence
                  \/ /\ parameters[j].confidence = parameters[i].confidence
                     /\ i <= j

\* C14: the result of _deduplicate_parameters has at most one entry per key
\* (parameter_type, numerical_value, lower-cased unit); the entry kept for a
\* key has the highest confidence among the input entries with that key, the
\* earliest one on a tie; and the keys come in the order of their first
\* occurrence in the input, also when a later entry replaced the first.
C14_OnePerKeyBestFirstSeenOrder ==
    operation = "_deduplicate_parameters" =>
        /\ KeysOf(result) = KeysOf(operand)
        /\ \A i, j \in 1..Len(result) :
              i < j =>
                  /\ KeyOf(result[i]) # KeyOf(result[j])
                  /\ FirstWith(operand, KeyOf(result[i]))
                     < FirstWith(operand, KeyOf(result[j]))
        /\ \A i \in 1..Len(result) :
              result[i] = operand[BestWith(operand, KeyOf(result[i]))]

\* the third entry replaces the first, which shares its key up to the case of
\* the unit, and stays ahead of the second
C14_Witness ==
    /\ operation = "_deduplicate_parameters"
    /\ Len(operand) = 3
    /\ KeyOf(operand[1]) = KeyOf(operand[3])
    /\ operand[1].unit # operand[3].unit
    /\ KeyOf(operand[1]) # KeyOf(operand[2])
    /\ operand[1].confidence < operand[3].confidence
    /\ result = <<operand[3], operand[2]>>

\* the keys of a list without the case folding of the unit
TriplesOf(parameters) ==
    {<<parameters[i].parameter_type, parameters[i].numerical_value,
       parameters[i].unit>> : i \in 1..Len(parameters)}

SourceKeywords ==
    {"power supply", "psu", "adapter", "charger", "output", "supply unit"}

SinkKeywords ==
    {"led", "strip", "light", "lamp", "input", "required", "consumption", "draw"}

HasKeyword(text, keywords) == \E k \in keywords : Contains(Lower(text), k)

\* the role of the claim: source keywords are looked for first
RoleOf(param) ==
    IF HasKeyword(param.source_text, SourceKeywords) THEN "psu"
    ELSE IF HasKeyword(param.source_text, SinkKeywords) THEN "led"
    ELSE "none"

SlotKind ==
    [psu_voltage |-> VOLTAGE, psu_current |-> CURRENT,
     led_voltage |-> VOLTAGE, led_current |-> CURRENT]

SlotRole ==
    [psu_voltage |-> "psu", psu_current |-> "psu",
     led_voltage |-> "led", led_current |-> "led"]

\* the positions of the parameters of the list that belong to the slot
BelongTo(parameters, f) ==
    {i \in 1..Len(parameters) :
        /\ parameters[i].parameter_type = SlotKind[f]
        /\ RoleOf(parameters[i]) = SlotRole[f]}

Located == operation = "find_psu_led_parameters"

\* C16: find_psu_led_parameters gives a voltage or current parameter the PSU
\* role when its source_text contains a source keyword (case-insensitive
\* substring), the LED role only when it contains no source keyword and at
\* least one sink keyword, and no role otherwise; a source_text with both
\* "output" and "led" gets the PSU role and never the LED role.
C16_SourceKeywordsFirst ==
    Located =>
        \A f \in Slots :
            /\ result[f] # None =>
                  \E i \in BelongTo(operand, f) : operand[i] = Val(result[f])
            /\ result[f] = None => BelongTo(operand, f) = {}
            /\ (/\ result[f] # None
                /\ Contains(Lower(Val(result[f]).source_text), "output")
                /\ Contains(Lower(Val(result[f]).source_text), "led"))
               => SlotRole[f] = "psu"

\* one voltage whose source text has "LED" and "Output": it is the PSU
\* voltage, and there is no LED voltage
C16_Witness ==
    /\ Located
    /\ Len(operand) = 1
    /\ operand[1].source_text = "LED Output Voltage: 12V"
    /\ result.psu_voltage = Some(operand[1])
    /\ result.led_voltage = None

\* among the positions, the one of the highest confidence, the first one when
\* several share it
BestOf(parameters, positions) ==
    CHOOSE i \in positions :
        \A j \in positions :
            \/ parameters[j].confidence < parameters[i].confidence
            \/ parameters[j].confidence = parameters[i].confidence /\ i <= j

Occurrences(text, sub) ==
    {i \in 1..(Len(text) - Len(sub) + 1) : SubSeq(text, i, i + Len(sub) - 1) = sub}

\* the 100 characters before the match, the match and the 100 characters
\* after it; the match is at position i of text and n characters long
Window(text, i, n) ==
    SubSeq(text, Max2(1, i - 100), Min2(Len(text), i + n - 1 + 100))

\* the lower-case word occurs in the text in any mix of cases
HasWord(text, word) ==
    \E i \in 1..(Len(text) - Len(word) + 1) :
        \A j \in 1..Len(word) :
            LowerChar(CharAt(text, i + j - 1)) = CharAt(word, j)

HasStructuredWord(window) ==
    \E w \in {"datasheet", "specification", "spec", "technical"} :
        HasWord(window, w)

\* digits and a dot, "*", "-" or "|"
HasListMarker(window) ==
    \E i \in 1..Len(window) :
        \/ CharAt(window, i) \in {"*", "-", "|"}
        \/ i > 1 /\ CharAt(window, i) = "." /\ CharAt(window, i - 1) \in DIGITS

\* the confidence boost of the pattern group of each kind
BoostOf(param_type) ==
    LET entry == CHOOSE e \in {extraction_patterns[i] :
                                  i \in 1..Len(extraction_patterns)} :
                    e[1] = param_type
    IN entry[2][1].confidence_boost

\* the confidence of the claim, in hundredths
ExpectedConfidence(window, param_type) ==
    Min2(100, 60 + (IF HasStructuredWord(window) THEN 15 ELSE 0)
                 + (IF HasListMarker(window) THEN 10 ELSE 0)
                 + BoostOf(param_type))

\* C18: the confidence of every extracted parameter is min(1.0, 0.6 + 0.15
\* if the window of 100 characters before and after the match contains
\* datasheet/specification/spec/technical + 0.10 if that window contains a
\* list marker + the confidence boost of its pattern group), and lies in
\* [0, 1] for every document and every rule of the pattern library.
C18_ConfidenceIsWindowScore ==
    ExtractedAll =>
        /\ \A t \in 1..Len(extraction_patterns) :
              \A g \in 1..Len(extraction_patterns[t][2]) :
                  /\ extraction_patterns[t][2][g].confidence_boost >= 0
                  /\ 60 + 15 + 10
                     + extraction_patterns[t][2][g].confidence_boost <= 100
        /\ \A i \in 1..Len(result) :
               /\ result[i].confidence >= 0
               /\ result[i].confidence <= 100
               /\ Occurrences(operand, result[i].source_text) # {}
               /\ \A at \in Occurrences(operand, result[i].source_text) :
                     result[i].confidence =
                         ExpectedConfidence(
                             Window(operand, at, Len(result[i].source_text)),
                             result[i].parameter_type)

\* "spec" begins exactly 100 characters before the match and counts; the
\* parameter after it is further away and gets the boost of its group only
C18_Witness ==
    /\ operation = "extract_all_parameters"
    /\ operand = JoinLines(JoinLines("Product spec", Filler94),
                           JoinLines("Output Voltage: 12V DC", "Rated Power: 60W"))
    /\ Len(result) = 2
    /\ result[1].confidence = 85
    /\ result[2].confidence = 65

\* the patterns of the library, all groups and kinds together
LibraryPatterns ==
    UNION {UNION {{extraction_patterns[t][2][g].patterns[i] :
                      i \in 1..Len(extraction_patterns[t][2][g].patterns)} :
                  g \in 1..Len(extraction_patterns[t][2])} :
           t \in 1..Len(extraction_patterns)}

\* re.search finds some pattern of the library in the text
SomePatternMatches(text) ==
    \E pattern \in LibraryPatterns : IsMatch(re_search(pattern, text, TRUE))

\* C19: extract_all_parameters terminates and returns a list without raising
\* for every input string; for the empty string and for a string that no
\* pattern matches the list is empty (and only for those).
C19_ReturnsListEmptyWithoutMatch ==
    ExtractedAll =>
        /\ DOMAIN result = 1..Len(result)
        /\ operand = "" => result = <<>>
        /\ result = <<>> <=> ~SomePatternMatches(operand)

\* a text with digits and the word "output" that no pattern matches
C19_Witness ==
    /\ operation = "extract_all_parameters"
    /\ operand = "12 volts of output"
    /\ ~SomePatternMatches(operand)
    /\ result = <<>>

(***************************************************************************)
(* Properties of the handlers' error path (specification Spec)             *)
(***************************************************************************)
\* the last request made the handler fail
Failed == handler \in {"app", "backend"} /\ document_text \in MalformedBodies

\* C20: on an internal failure of the /analyze handlers (a request body that
\* is not a JSON object, a document_text that is not a string) the response
\* has status 500, Decision "Error" and the shape of a normal response:
\* Justification, Referenced_Sections, Confidence_Score and an
\* Extracted_Technical_Data object with the four fields PSU_Output_Voltage,
\* PSU_Max_Output_Current, LED_Required_Voltage, LED_Current_Draw.
C20_ErrorResponseKeepsShape ==
    Failed =>
        /\ response.status = 500
        /\ response.Decision = "Error"
        /\ {"Justification", "Referenced_Sections", "Confidence_Score",
            "Extracted_Technical_Data"} \subseteq DOMAIN response
        /\ DOMAIN response.Extracted_Technical_Data =
              {"PSU_Output_Voltage", "PSU_Max_Output_Current",
               "LED_Required_Voltage", "LED_Current_Draw"}

\* what the handlers answer: the error response with an empty
\* Extracted_Technical_Data
C20_ErrorDataIsEmpty ==
    /\ Failed
    /\ response.status = 500
    /\ response.Decision = "Error"
    /\ response.Confidence_Score = "Low"
    /\ response.Referenced_Sections = <<>>
    /\ response.Justification \in
          {"An error occurred during analysis: 'list' object has no attribute 'get'",
           "An error occurred during analysis: object of type 'int' has no len()"}
    /\ DOMAIN response.Extracted_Technical_Data = {}

(***************************************************************************)
(* Properties of repeated requests (specification SpecRepeat)              *)
(***************************************************************************)
\* the five fields of a response that make its verdict
Verdict(r) ==
    <<r.Decision, r.Justification, r.Referenced_Sections,
      r.Extracted_Technical_Data, r.Confidence_Score>>

\* C21: the verdict of /analyze depends neither on user_query nor on the
\* requests answered before: two requests to the same handler with the same
\* document_text, whatever their user_query and whatever was answered or
\* cleared before them, have the same Decision, Justification,
\* Referenced_Sections, Extracted_Technical_Data and Confidence_Score.
C21_VerdictIgnoresQueryAndHistory ==
    \A i, j \in 1..Len(answered) :
        (/\ answered[i].handler = answered[j].handler
         /\ answered[i].document_text = answered[j].document_text)
        => Verdict(answered[i].response) = Verdict(answered[j].response)

\* the backend answers the same document twice, under two queries, first
\* with an empty history and then with one session saved
C21_Witness ==
    /\ Len(answered) = 2
    /\ answered[1].handler = "backend"
    /\ answered[2].handler = "backend"
    /\ answered[1].document_text = answered[2].document_text
    /\ answered[1].user_query = ""
    /\ answered[2].user_query = "Is Output Voltage: 24V DC enough?"
    /\ answered[1].response.Analysis_Details.session_id = 1
    /\ answered[2].response.Analysis_Details.session_id = 2
    /\ Len(sessions) = 2
    /\ sessions[2].user_query = "Is Output Voltage: 24V DC enough?"
    /\ answered[2].response.Decision = "Compatible"

(***************************************************************************)
(* Properties of the first handler's answers (specification Spec)          *)
(***************************************************************************)
\* the first handler answered a well-formed request
AppServed == handler = "app" /\ response.status = 200

\* where a clause begins in a justification: 0 when it is not there
ClauseStart(justification, label) ==
    IF Occurrences(justification, label) = {} THEN 0
    ELSE CHOOSE i \in Occurrences(justification, label) :
            \A j \in Occurrences(justification, label) : i <= j

\* the text of the clause that begins at first and ends before the clause
\* that begins at next (at the end of the justification when next is 0)
ClauseText(justification, first, next) ==
    IF next = 0 THEN SubSeq(justification, first, Len(justification))
    ELSE SubSeq(justification, first, next - 2)

\* the justification is its clauses, one after another with a space between
\* them, the voltage clause first
IsConcatenation(justification, voltage_at, current_at) ==
    /\ voltage_at > 0 => voltage_at = 1
    /\ (voltage_at = 0 /\ current_at > 0) => current_at = 1
    /\ (voltage_at > 0 /\ current_at > 0) =>
          /\ current_at > 2
          /\ SubSeq(justification, current_at - 2, current_at - 1) = ". "
    /\ CharAt(justification, Len(justification)) = "."

ClausesMatchChecks(justification, voltage_at, current_at) ==
    /\ voltage_at > 0 <=> Number.psu_voltage # Number.led_voltage
    /\ current_at > 0 <=> Number.psu_current < Number.led_current
    /\ voltage_at > 0 \/ current_at > 0
    /\ IsConcatenation(justification, voltage_at, current_at)
    /\ voltage_at > 0 =>
          /\ Contains(ClauseText(justification, voltage_at, current_at),
                      Val(Captured.psu_voltage))
          /\ Contains(ClauseText(justification, voltage_at, current_at),
                      Val(Captured.led_voltage))
    /\ current_at > 0 =>
          /\ Contains(ClauseText(justification, current_at, 0),
                      Val(Captured.psu_current))
          /\ Contains(ClauseText(justification, current_at, 0),
                      Val(Captured.led_current))

\* C22: in the first handler, the justification of an "Incompatible" answer
\* is one clause per failing check: the "Voltage mismatch" clause is there
\* exactly when the two voltages differ, the "Insufficient current" clause
\* exactly when the PSU current is below the LED current, at least one of
\* them is there, the justification is these clauses joined, and each clause
\* names the two raw values it compared.
C22_OneClausePerFailingCheck ==
    (AppServed /\ response.Decision = "Incompatible") =>
        ClausesMatchChecks(response.Justification,
                  ClauseStart(response.Justification, "Voltage mismatch"),
                  ClauseStart(response.Justification, "Insufficient current"))

\* both checks fail: 5V against 12V, 2.5 Amps against 6 Amps
C22_Witness ==
    /\ AppServed
    /\ response.Decision = "Incompatible"
    /\ Number.psu_voltage = 500
    /\ Number.led_voltage = 1200
    /\ Number.psu_current = 250
    /\ Number.led_current = 600
    /\ response.Justification =
          "Voltage mismatch: PSU provides 5V DC but LED requires 12V DC. Insufficient current: PSU provides a max of 2.5 Amps but LED requires 6 Amps."

(***************************************************************************)
(* Properties of extract_parameter (specification Spec)                    *)
(***************************************************************************)
\* the pattern list of each handler for each slot
PatternLists ==
    [app |-> [psu_voltage |-> psu_output_voltage_patterns,
              psu_current |-> psu_max_current_patterns,
              led_voltage |-> led_input_voltage_patterns,
              led_current |-> led_current_draw_patterns],
     backend |-> [psu_voltage |-> backend_psu_output_voltage_patterns,
                  psu_current |-> backend_psu_max_current_patterns,
                  led_voltage |-> backend_led_input_voltage_patterns,
                  led_current |-> backend_led_current_draw_patterns]]

\* re.search of each pattern of a list, on its own
Searches(text, patterns) ==
    [i \in 1..Len(patterns) |-> re_search(patterns[i], text, TRUE)]

\* the searches of every handler's lists in every document
SearchTable ==
    {<<<<h, d>>, [f \in Slots |-> Searches(d, PatternLists[h][f])]>> :
        h \in {"app", "backend"}, d \in Documents}

\* the patterns of a list that match somewhere
Matching(searches) == {i \in 1..Len(searches) : IsMatch(searches[i])}

\* the stripped capture of the earliest-listed pattern that matches
EarliestListed(text, searches) ==
    IF Matching(searches) = {} THEN None
    ELSE Some(Strip(Group1(text,
             searches[CHOOSE i \in Matching(searches) :
                          \A j \in Matching(searches) : i <= j])))

SlotsAreEarliestListed(found) ==
    \A f \in Slots :
        /\ Captured[f] = EarliestListed(document_text, found[f])
        /\ Captured[f] = None <=> Matching(found[f]) = {}
        /\ DataField[f] = OrNotFound(EarliestListed(document_text, found[f]))

\* C23: extract_parameter returns the stripped capture of the earliest
\* pattern of its list that matches anywhere in the document, wherever the
\* later patterns match, and an absent value exactly when no pattern
\* matches; the handlers report it in Extracted_Technical_Data.
C23_EarliestListedPatternWins ==
    Served => SlotsAreEarliestListed(Lookup(SearchTable, <<handler, document_text>>))

\* "Output:" comes first in the text and "Output Voltage:" first in the list
C23_Witness ==
    /\ Served
    /\ Occurrences(document_text, "Output: 5V DC") = {1}
    /\ Occurrences(document_text, "Output Voltage: 12V DC") = {15}
    /\ Captured.psu_voltage = Some("12V DC")
    /\ response.Extracted_Technical_Data.PSU_Output_Voltage = "12V DC"

(***************************************************************************)
(* Properties of the patterns of one kind (specification SpecExtractor)    *)
(***************************************************************************)
RECURSIVE MatchList(_, _, _)
\* the matches of the patterns of one group, pattern after pattern, each
\* with the number of its pattern: the match at position n makes the
\* parameter named <kind>_<n - 1>
MatchList(text, patterns, i) ==
    IF i > Len(patterns) THEN <<>>
    ELSE [k \in 1..Len(re_finditer(patterns[i], text, TRUE)) |->
             [pattern |-> i,
              start |-> re_finditer(patterns[i], text, TRUE)[k].start,
              end |-> re_finditer(patterns[i], text, TRUE)[k].end]]
         \o MatchList(text, patterns, i + 1)

\* two matches share a character of the text
Overlap(a, b) == a.start < b.end /\ b.start < a.end

\* the matches that no match of an earlier-listed pattern overlaps: one for
\* each occurrence in the text
Leading(matches) ==
    {n \in 1..Len(matches) :
        \A k \in 1..Len(matches) :
            matches[k].pattern < matches[n].pattern
            => ~Overlap(matches[k], matches[n])}

\* the names of the parameters of one kind in a list
NamesOf(parameters, param_type) ==
    {parameters[k].name : k \in {n \in 1..Len(parameters) :
                                    parameters[n].parameter_type = param_type}}

\* C24: extract_all_parameters returns one parameter for every occurrence
\* that a pattern matches, none is left out, and of an occurrence that two
\* patterns of the same kind match it is the one made by the pattern listed
\* first.
C24_OnePerOccurrenceFirstListedWins ==
    operation = "extract_all_parameters" =>
        \A t \in 1..Len(extraction_patterns) :
            NamesOf(result, extraction_patterns[t][1]) =
                {extraction_patterns[t][1] \o "_" \o ToStr(n - 1) :
                    n \in Leading(MatchList(operand,
                             extraction_patterns[t][2][1].patterns, 1))}

\* the first and the third voltage pattern match "Output Voltage: 12V DC
\* output"; only the third has "spec" in its window, and its parameter is
\* the one returned
C24_LaterPatternWins ==
    /\ operation = "extract_all_parameters"
    /\ operand = JoinLines("Output Voltage: 12V DC output",
                           JoinLines(Filler94, "spec sheet"))
    /\ Len(result) = 1
    /\ result[1].name = "voltage_1"
    /\ result[1].source_text = "12V DC output"
    /\ result[1].confidence = 85

\* the sections of an answer, in the order of the claim, and the slot each
\* one reports
SectionNames ==
    <<"PSU - Output Voltage", "PSU - Max Output Current",
      "LED - Required Input Voltage", "LED - Current Draw">>

SectionSlots == <<"psu_voltage", "psu_current", "led_voltage", "led_current">>

\* C25: in every answer of the first handler to a well-formed request,
\* Referenced_Sections is non-empty exactly when the Decision is "Compatible"
\* or "Incompatible"; it then has four entries, PSU output voltage, PSU max
\* output current, LED required input voltage, LED current draw in this
\* order, each with the captured raw value; otherwise it is empty.
C25_SectionsIffDecided ==
    AppServed =>
        /\ response.Referenced_Sections # <<>>
           <=> response.Decision \in {"Compatible", "Incompatible"}
        /\ response.Referenced_Sections # <<>> =>
              /\ Len(response.Referenced_Sections) = 4
              /\ \A i \in 1..4 :
                    /\ response.Referenced_Sections[i].section_name = SectionNames[i]
                    /\ Contains(response.Referenced_Sections[i].details,
                                Val(Captured[SectionSlots[i]]))
                    /\ DOMAIN response.Referenced_Sections[i] =
                          {"section_name", "details"}

\* an Incompatible answer with its four sections, and the answers without
\* sections are reached too (C4_Witness, C5_ZeroIsUndecided)
C25_Witness ==
    /\ AppServed
    /\ response.Decision = "Incompatible"
    /\ Len(response.Referenced_Sections) = 4
    /\ response.Referenced_Sections[2].details = "Max Output Current: 2.5 Amps"
    /\ response.Referenced_Sections[4] =
          [section_name |-> "LED - Current Draw", details |-> "Current Draw: 6 Amps"]

(***************************************************************************)
(* Properties of the history (specification SpecHistory)                   *)
(***************************************************************************)
\* the session ids of a list of sessions, in the list's order
SessionIds(history) == [i \in 1..Len(history) |-> history[i].session_id]

\* the last n entries of a sequence
LastOf(s, n) == [i \in 1..n |-> s[Len(s) - n + i]]

\* C26: after n calls of save_analysis made one at a time the history holds
\* min(n, 100) records, the most recent ones in the order they were saved,
\* and get_recent_sessions(k) with k >= 1 returned the last min(k, len) of
\* the history it was asked about, in that order.
C26_HistoryKeepsLatestHundred ==
    /\ Len(sessions) = Min2(served, 100)
    /\ Len(sessions) <= 100
    /\ SessionIds(sessions) =
          [i \in 1..Len(sessions) |-> served - Len(sessions) + i]
    /\ (recent # <<>> /\ recent.limit >= 1) =>
          recent.returned =
             LastOf(recent.sessions, Min2(recent.limit, Len(recent.sessions)))

\* 102 saves, of which the sessions 3 to 102 are kept, and the last 20 of
\* them returned.
C26_Witness ==
    /\ served = 102
    /\ Len(sessions) = 100
    /\ sessions[1].session_id = 3
    /\ sessions[100].session_id = 102
    /\ recent # <<>>
    /\ recent.limit = 20
    /\ recent.sessions = sessions
    /\ SessionIds(recent.returned) = [i \in 1..20 |-> 82 + i]

(***************************************************************************)
(* Properties of the shared history (specification SpecThreads)            *)
(***************************************************************************)
\* C27: once every save_analysis call has returned, each record among the
\* 100 most recently appended is in the history, and the history holds at
\* most 100 records.
C27_NoRecordLost ==
    AllIdle =>
        /\ Len(sessions) <= 100
        /\ \A i \in 1..Min2(Len(answered), 100) :
              \E j \in 1..Len(sessions) :
                  sessions[j].session_id = answered[Len(answered) - i + 1]

\* All calls have returned, session 102 was appended last, and the history
\* ends with session 101: the record of session 102 went to the list that
\* the other thread's truncation had replaced.
C27_RecordLost ==
    /\ AllIdle
    /\ Len(answered) = 102
    /\ answered[102] = 102
    /\ Len(sessions) = 100
    /\ sessions[100].session_id = 101
    /\ \A j \in 1..Len(sessions) : sessions[j].session_id # 102

(***************************************************************************)
(* Properties of the voltage checks (specification SpecVoltage)            *)
(***************************************************************************)
\* C28: for every pair of voltages the web-layer patterns capture, the
\* equality of src/app.py, the 0.1 difference of backend/app.py and the 0.5
\* tolerance of _check_voltage_compatibility give the same answer.
C28_VoltageChecksAgree ==
    compared # <<>> =>
        /\ compared.app = compared.backend
        /\ compared.backend = compared.core

\* Two voltages of 310 digits each are both inf: equal for src/app.py, and
\* a nan difference, hence no match, for the other two checks.
C28_InfiniteVoltagesDisagree ==
    /\ compared # <<>>
    /\ compared.psu_voltage = Infinity
    /\ compared.led_voltage = Infinity
    /\ compared.app
    /\ ~compared.backend
    /\ ~compared.core

(***************************************************************************)
(* Properties of the confidence of extracted parameters (SpecCore)         *)
(***************************************************************************)
\* the analyzer ran on what find_psu_led_parameters returned
FromLocated == \A f \in Slots : arguments[f] = located[f]

\* the window of the selected parameter f has a structured word, or a list
\* marker, wherever its source text occurs in the document
SelectedHasStructuredWord(f) ==
    \A at \in Occurrences(document_text, Val(located[f]).source_text) :
        HasStructuredWord(Window(document_text, at,
                                 Len(Val(located[f]).source_text)))

SelectedHasListMarker(f) ==
    \A at \in Occurrences(document_text, Val(located[f]).source_text) :
        HasListMarker(Window(document_text, at,
                             Len(Val(located[f]).source_text)))

\* C29: every voltage or current parameter of the pattern library has a
\* confidence of at least 0.7; when the four parameters come from the
\* extraction the confidence level is never "Low" ("Low" comes only with
\* "Insufficient Data") and it is "High" exactly when each of the four has a
\* structured word in its window; a list marker without such a word gives
\* 0.8, which is not "High".
C29_HighIffAllStructured ==
    /\ \A i \in 1..Len(extracted) :
          extracted[i].parameter_type \in {VOLTAGE, CURRENT} =>
              extracted[i].confidence >= 70
    /\ (Returned /\ FromLocated /\ ~outcome.raised) =>
          /\ outcome.confidence = "Low" => outcome.decision = "Insufficient Data"
          /\ AllPresent =>
                /\ outcome.confidence # "Low"
                /\ outcome.confidence = "High"
                   <=> \A f \in Slots : SelectedHasStructuredWord(f)
                /\ \A f \in Slots :
                      (SelectedHasListMarker(f) /\ ~SelectedHasStructuredWord(f))
                          => /\ Val(located[f]).confidence = 80
                             /\ outcome.confidence = "Medium"

\* The heading's "spec" is within 100 characters of the source voltage only:
\* that parameter has 0.95, the sink current with the list marker "2." and
\* no structured word has 0.8, and the level is "Medium".
C29_Witness ==
    /\ Returned
    /\ FromLocated
    /\ AllPresent
    /\ SelectedHasStructuredWord("psu_voltage")
    /\ Val(located.psu_voltage).confidence = 95
    /\ SelectedHasListMarker("led_current")
    /\ ~SelectedHasStructuredWord("led_current")
    /\ Val(located.led_current).confidence = 80
    /\ outcome.confidence_score = 80
    /\ outcome.confidence = "Medium"

(***************************************************************************)
(* Properties of the current check (specification SpecCore)                *)
(***************************************************************************)
ArgumentUnit == [f \in Slots |-> Val(arguments[f]).unit]

\* C30: the current check uses the two numerical_value fields as extracted
\* and no unit: it is compatible exactly when the source's number is at
\* least the sink's, so 5 A against 100 mA is 5 >= 100 and incompatible.
C30_CurrentCheckIgnoresUnits ==
    (Returned /\ AllNumeric) =>
        /\ ~outcome.raised
        /\ outcome.current_analysis.psu_current = ArgumentNumber.psu_current
        /\ outcome.current_analysis.led_current = ArgumentNumber.led_current
        /\ outcome.current_analysis.compatible
           <=> ArgumentNumber.psu_current >= ArgumentNumber.led_current
        /\ ~outcome.current_analysis.compatible => outcome.decision = "Incompatible"

\* "Max Output Current: 5 A" against "Current Draw: 100mA" with equal
\* voltages: 5 >= 100 fails and the decision is "Incompatible"
C30_Witness ==
    /\ Returned
    /\ AllNumeric
    /\ FromLocated
    /\ Val(arguments.psu_current).value = "5 A"
    /\ ArgumentUnit.psu_current = "A"
    /\ ArgumentNumber.psu_current = 500
    /\ Val(arguments.led_current).value = "100mA"
    /\ ArgumentUnit.led_current = "mA"
    /\ ArgumentNumber.led_current = 10000
    /\ outcome.voltage_analysis.compatible
    /\ ~outcome.current_analysis.compatible
    /\ outcome.decision = "Incompatible"

====
